---- MODULE Spec2Model ----
(***************************************************************************)
(* Model of the constrained IGS prediction core                            *)
(* (ml/models/constrained_predictor.py), the legacy Ridge predictor        *)
(* (src/analysis/predict_future_igs.py) and the request validators of the  *)
(* serverless API (api/predict.py, submission/Code/api/predict.py,         *)
(* frontend/api/predict.py).                                               *)
(*                                                                         *)
(* Numbers.  Scores, deltas and boosts are Python floats.  They are        *)
(* modelled in fixed point: an integer n stands for n / Unit.  Unit is     *)
(* chosen so that every constant of the program and every boost of the     *)
(* first six simulated years is exact; a quotient that is not exact is     *)
(* rounded to the nearest unit, as a float operation rounds to the nearest *)
(* representable number.                                                   *)
(*                                                                         *)
(* Strings.  A string is a sequence of one-character strings.              *)
(***************************************************************************)
EXTENDS Integers, Sequences, FiniteSets, TLC

VARIABLES
    constructed,    \* a ConstrainedIGSPredictor instance exists (_predictor is set)
    model,          \* ConstrainedIGSPredictor.model: None or fitted regression
    scaler,         \* ConstrainedIGSPredictor.scaler: None or fitted scaler
    tract_trends,   \* ConstrainedIGSPredictor.tract_trends: tract -> summary
    model_file,     \* content of MODEL_PATH on disk: None or the saved dict
    legacy_model,   \* IGSPredictor.model: None or fitted Ridge
    legacy_file,    \* content of the legacy MODEL_PATH: None or the saved model
    call,           \* the call just made: its arguments and its outcome
    norm,           \* a tract string under normalization and the outcomes
    data,           \* which data files the process finds on disk
    ens             \* the EnsembleIGSPredictor instance: weights and fitted components

vars == <<constructed, model, scaler, tract_trends, model_file,
          legacy_model, legacy_file, call, norm, data, ens>>

\* Optional values: None is the empty sequence, Some(x) the one-element sequence
None == <<>>
Some(x) == <<x>>
Get(o) == o[1]

----------------------------------------------------------------------------
(* Bounds of the exploration *)

MaxYears == 5        \* largest years_ahead a call is made with
MaxInterventions == 2 \* longest intervention list a call is made with
MaxRawLen == 3       \* longest raw tract string given to the validators

----------------------------------------------------------------------------
(* Fixed-point arithmetic *)

Unit == 660 * 100
Cent == Unit \div 100

\* x given in hundredths (2350 is 23.50)
P(x100) == x100 * Cent

Min(a, b) == IF a <= b THEN a ELSE b
Max(a, b) == IF a >= b THEN a ELSE b

\* a / b rounded to the nearest integer, b > 0
DivRound(a, b) == (2 * a + b) \div (2 * b)

\* np.clip(x, lo, hi)
Clip(x, lo, hi) == Min(Max(x, lo), hi)

\* round(x, 2): nearest hundredth, ties to the even hundredth
Round2(x) ==
    LET q == x \div Cent
        r == x % Cent
    IN  IF 2 * r < Cent THEN q * Cent
        ELSE IF 2 * r > Cent THEN (q + 1) * Cent
        ELSE IF q % 2 = 0 THEN q * Cent ELSE (q + 1) * Cent

RECURSIVE SumSeq(_)
SumSeq(s) == IF s = <<>> THEN 0 ELSE Head(s) + SumSeq(Tail(s))

----------------------------------------------------------------------------
(* Strings *)

Digits == {"0", "1", "2", "3", "4", "5", "6", "7", "8", "9"}
Whitespace == {" "}

RECURSIVE Zeros(_)
Zeros(n) == IF n <= 0 THEN <<>> ELSE <<"0">> \o Zeros(n - 1)

\* str.zfill(width): left-pad with zeros, after a leading sign if there is one
Zfill(s, width) ==
    IF Len(s) >= width THEN s
    ELSE IF s # <<>> /\ Head(s) \in {"+", "-"}
         THEN <<Head(s)>> \o Zeros(width - Len(s)) \o Tail(s)
         ELSE Zeros(width - Len(s)) \o s

\* ''.join(c for c in s if c.isdigit())
RECURSIVE OnlyDigits(_)
OnlyDigits(s) ==
    IF s = <<>> THEN <<>>
    ELSE IF Head(s) \in Digits THEN <<Head(s)>> \o OnlyDigits(Tail(s))
    ELSE OnlyDigits(Tail(s))

RECURSIVE LStrip(_)
LStrip(s) ==
    IF s # <<>> /\ Head(s) \in Whitespace THEN LStrip(Tail(s)) ELSE s

RECURSIVE RStrip(_)
RStrip(s) ==
    IF s # <<>> /\ s[Len(s)] \in Whitespace
    THEN RStrip(SubSeq(s, 1, Len(s) - 1)) ELSE s

\* str.strip()
Strip(s) == RStrip(LStrip(s))

\* s[-n:]
Suffix(s, n) == IF Len(s) <= n THEN s ELSE SubSeq(s, Len(s) - n + 1, Len(s))

----------------------------------------------------------------------------
(* Domain constants of constrained_predictor.py *)

\* variant of YEARLY_CHANGE_MIN: a yearly decline of up to 3 points
YearlyChangeMinThree == -(3 * Unit)

\* YEARLY_CHANGE_BOUNDS['min'] = -2.0, ['max'] = 3.5
YEARLY_CHANGE_MIN == -(2 * Unit)
YEARLY_CHANGE_MAX == (35 * Unit) \div 10

\* INTERVENTION_MULTIPLIERS; ramp2 is twice ramp_years (1.5 years is 3)
INTERVENTION_MULTIPLIERS ==
    [digital          |-> [base_boost |-> P(40), max_boost |-> P(80), ramp2 |-> 4],
     housing          |-> [base_boost |-> P(35), max_boost |-> P(70), ramp2 |-> 6],
     entrepreneurship |-> [base_boost |-> P(25), max_boost |-> P(50), ramp2 |-> 4],
     workforce        |-> [base_boost |-> P(30), max_boost |-> P(60), ramp2 |-> 3],
     health           |-> [base_boost |-> P(20), max_boost |-> P(40), ramp2 |-> 4],
     policy           |-> [base_boost |-> P(15), max_boost |-> P(35), ramp2 |-> 6]]

\* SYNERGY_BONUS = 0.08
SYNERGY_BONUS == P(8)

\* thresholds and factors of the boundary dampening in predict
HIGH_LEVEL == 70 * Unit
LOW_LEVEL == 25 * Unit
LOW_FLOOR == P(30)
IGS_MAX == 100 * Unit

\* canonical width of a tract key, and of the ACS key
TRACT_WIDTH == 10
ACS_WIDTH == 11

\* variant of FALLBACK_TREND_INFO: the latest score is left out
FallbackWithoutLatest == [trend |-> P(50), volatility |-> P(150)]

\* variant of FALLBACK_TREND_INFO: a flat trend
FallbackFlat == [latest_igs |-> 23 * Unit, trend |-> 0, volatility |-> P(150)]

\* the fallback summary of predict for a tract without trend entry
FALLBACK_TREND_INFO == [latest_igs |-> 23 * Unit, trend |-> P(50), volatility |-> P(150)]

----------------------------------------------------------------------------
(* The data files: data/igs_talladega_tracts.csv, data/acs_talladega_tracts.csv *)

Tract(a, b, c) == <<"1", "1", "2", "1", "0", "1", "0", a, b, c>>

T_MID  == Tract("5", "0", "0")   \* history and features
T_RISE == Tract("6", "0", "0")   \* history rising toward 70, no features
T_LOW  == Tract("7", "0", "0")   \* history below 25, features
T_TOP  == Tract("8", "0", "0")   \* history close to 100, no features
T_ONE  == Zeros(8) \o <<"1", "2">> \* one historical point, features
T_ACS  == Tract("9", "0", "0")   \* features only, no history
T_NONE == Tract("9", "9", "9")   \* in neither file
T_ZERO == Tract("0", "5", "0")   \* history close to 0, no features
T_NEAR == Tract("2", "4", "0")   \* history falling steeply to just below 25, no features
T_EDGE == Tract("7", "0", "5")   \* latest score exactly 70, steep trend, no features
\* the default benchmark_tract of BenchmarkConverger.fit: long history, features
T_BENCH == <<"1", "1", "2", "1", "0", "1", "1", "1", "0", "0">>

\* rows of the complete IGS file: (Census Tract FIPS code, Year, score)
IGS_FILE ==
    << [fips |-> T_MID,  year |-> 2022, score |-> P(4250)],
       [fips |-> T_MID,  year |-> 2020, score |-> P(4000)],
       [fips |-> T_MID,  year |-> 2021, score |-> P(4100)],
       [fips |-> T_RISE, year |-> 2020, score |-> P(6030)],
       [fips |-> T_RISE, year |-> 2021, score |-> P(6350)],
       [fips |-> T_RISE, year |-> 2022, score |-> P(6670)],
       [fips |-> T_LOW,  year |-> 2021, score |-> P(2000)],
       [fips |-> T_LOW,  year |-> 2022, score |-> P(1900)],
       [fips |-> T_TOP,  year |-> 2021, score |-> P(9700)],
       [fips |-> T_TOP,  year |-> 2022, score |-> P(9850)],
       [fips |-> <<"1", "2">>, year |-> 2022, score |-> P(5000)],
       [fips |-> T_EDGE, year |-> 2021, score |-> P(6640)],
       [fips |-> T_EDGE, year |-> 2022, score |-> P(7000)],
       [fips |-> T_NEAR, year |-> 2021, score |-> P(2640)],
       [fips |-> T_NEAR, year |-> 2022, score |-> P(2390)],
       [fips |-> T_ZERO, year |-> 2021, score |-> P(100)],
       [fips |-> T_ZERO, year |-> 2022, score |-> P(50)],
       [fips |-> T_BENCH, year |-> 2017, score |-> P(5000)],
       [fips |-> T_BENCH, year |-> 2018, score |-> P(5100)],
       [fips |-> T_BENCH, year |-> 2019, score |-> P(5250)],
       [fips |-> T_BENCH, year |-> 2020, score |-> P(5300)],
       [fips |-> T_BENCH, year |-> 2021, score |-> P(5400)],
       [fips |-> T_BENCH, year |-> 2022, score |-> P(5500)] >>

FEATURE_COLS ==
    << "median_household_income", "gini_index", "per_capita_income",
       "poverty_rate", "unemployment_rate", "labor_force_participation_rate",
       "housing_cost_burden_rate", "broadband_access_rate" >>

\* a cell of the ACS file: a number, or NaN (an empty cell)
Num(v) == [nan |-> FALSE, v |-> v]
NaN == [nan |-> TRUE, v |-> 0]

\* rows of the complete ACS file: tract_fips and one cell per column
ACS_FILE ==
    << [tract_fips |-> <<"0">> \o T_MID,
        cells |-> << Num(45), Num(0), Num(24), Num(18), Num(6), Num(55), Num(30), Num(70) >>],
       [tract_fips |-> <<"0">> \o T_LOW,
        cells |-> << Num(28), Num(1), Num(15), NaN, Num(11), Num(48), Num(41), NaN >>],
       [tract_fips |-> <<"1", "2">>,
        cells |-> << Num(39), Num(0), Num(20), Num(21), Num(8), Num(52), Num(33), Num(64) >>],
       [tract_fips |-> <<"0">> \o T_ACS,
        cells |-> << Num(52), Num(0), Num(27), Num(12), Num(5), Num(60), Num(26), Num(81) >>],
       [tract_fips |-> <<"0">> \o T_BENCH,
        cells |-> << Num(48), Num(0), Num(25), Num(15), Num(6), Num(58), Num(29), Num(75) >>] >>

\* What the process finds under data/:
\*   "full"     both files, complete
\*   "few"      both files, the IGS file without the benchmark tract: three
\*              (tract, transition) pairs with features
\*   "nopairs"  both files, the IGS file with the tracts only that have no
\*              feature row or a single year: no pair with features
\*   "noacs"    the ACS file is missing
\*   "noigs"    the IGS file is missing
Datasets == {"full", "few", "nopairs", "noacs", "noigs"}

\* pd.read_csv(IGS_PATH) returns the rows (it raises FileNotFoundError otherwise)
IgsFoundIn(d) == d # "noigs"
\* pd.read_csv(ACS_PATH) is reached and returns the rows
AcsFoundIn(d) == d \notin {"noigs", "noacs"}

\* rows of the IGS file as read
IgsCsv(d) ==
    CASE d = "few" -> SelectSeq(IGS_FILE, LAMBDA r : r.fips # T_BENCH)
      [] d = "nopairs" -> SelectSeq(IGS_FILE, LAMBDA r : r.fips \in {T_RISE, T_TOP, T_ZERO, <<"1", "2">>})
      [] d = "noigs" -> <<>>
      [] OTHER -> IGS_FILE

\* rows of the ACS file as read
AcsCsv(d) == IF AcsFoundIn(d) THEN ACS_FILE ELSE <<>>

\* _load_data: self.igs_df and self.acs_df (the empty sequence stands for
\* None).  Both key columns are zero-filled to their width, unless reading
\* the ACS file raised: then igs_df keeps the keys as read and acs_df is None
LoadData(d) ==
    LET igs == IgsCsv(d)
        acs == AcsCsv(d)
    IN  [igs_df |-> IF AcsFoundIn(d)
                    THEN [i \in 1..Len(igs) |->
                             [igs[i] EXCEPT !.fips = Zfill(igs[i].fips, TRACT_WIDTH)]]
                    ELSE igs,
         acs_df |-> [i \in 1..Len(acs) |->
                        [acs[i] EXCEPT !.tract_fips = Zfill(acs[i].tract_fips, ACS_WIDTH)]]]

\* the frames of every dataset, computed once
LOADED == [d \in Datasets |-> LoadData(d)]

IgsFound == IgsFoundIn(data)
AcsFound == AcsFoundIn(data)
IGS_DF == LOADED[data].igs_df
ACS_DF == LOADED[data].acs_df

\* igs_df['Census Tract FIPS code'].unique()
TractsOf(igs_df) == {igs_df[i].fips : i \in 1..Len(igs_df)}
IgsTracts == TractsOf(IGS_DF)

\* igs_df[igs_df[fips] == tract].sort_values('Year'): the rows of one tract by year
\* (the file holds one row per tract and year)
SortedByYear(rows) ==
    [k \in 1..Cardinality(rows) |->
        CHOOSE r \in rows : Cardinality({o \in rows : o.year < r.year}) = k - 1]

TractDataIn(igs_df, tract) ==
    SortedByYear({igs_df[i] : i \in {j \in 1..Len(igs_df) : igs_df[j].fips = tract}})

TractData(tract) == TractDataIn(IGS_DF, tract)

\* tract_data['Inclusive Growth Score'].values
ScoresOf(td) == [i \in 1..Len(td) |-> td[i].score]

IgsScores(tract) == ScoresOf(TractData(tract))

\* np.diff(igs_scores)
Diff(s) == [i \in 1..(Len(s) - 1) |-> s[i + 1] - s[i]]

\* np.average(yearly_changes, weights=np.linspace(0.5, 1.0, k)):
\* the weights are proportional to (k - 1) + (i - 1) for k > 1; one change has weight 0.5
WeightedTrend(changes) ==
    LET k == Len(changes)
        w(i) == IF k = 1 THEN 1 ELSE (k - 1) + (i - 1)
    IN  DivRound(SumSeq([i \in 1..k |-> w(i) * changes[i]]),
                 SumSeq([i \in 1..k |-> w(i)]))

\* floor of the square root of n, for 0 <= n < 10000 * 10000
ISqrt(n) == CHOOSE r \in 0..9999 : r * r <= n /\ n < (r + 1) * (r + 1)

\* thousandths of a point in one unit, for the squares of np.std
Milli == Unit \div 1000

\* np.std(yearly_changes): deviations from the mean in thousandths of a point
Std(changes) ==
    LET k == Len(changes)
        mean == DivRound(SumSeq(changes), k)
        dev(i) == DivRound(changes[i] - mean, Milli)
    IN  ISqrt(DivRound(SumSeq([i \in 1..k |-> dev(i) * dev(i)]), k)) * Milli

\* _compute_tract_trends: the summary of one tract with rows td
TrendInfoOf(td) ==
    LET scores == ScoresOf(td)
    IN  IF Len(scores) < 2
        THEN [trend |-> 0, volatility |-> Unit]
        ELSE [trend |-> WeightedTrend(Diff(scores)),
              volatility |-> IF Len(scores) > 2 THEN Std(Diff(scores)) ELSE Unit,
              latest_igs |-> scores[Len(scores)],
              latest_year |-> td[Len(td)].year,
              history |-> scores]

TrendInfo(tract) == TrendInfoOf(TractData(tract))

\* _compute_tract_trends on the frame of every dataset, computed once
TRACT_TRENDS ==
    [d \in Datasets |->
        [t \in TractsOf(LOADED[d].igs_df) |-> TrendInfoOf(TractDataIn(LOADED[d].igs_df, t))]]

\* self.tract_trends after _compute_tract_trends
ComputeTractTrends == TRACT_TRENDS[data]

----------------------------------------------------------------------------
(* Features and the fitted regression *)

\* acs_df[acs_df['tract_fips'].str[-10:] == tract]
AcsMatchesIn(acs_df, tract) ==
    SelectSeq(acs_df, LAMBDA r : Suffix(r.tract_fips, TRACT_WIDTH) = tract)

AcsMatches(tract) == AcsMatchesIn(ACS_DF, tract)

\* float(val) if pd.notna(val) else 0, in units
FeatureValue(cell) == IF cell.nan THEN 0 ELSE cell.v * Unit

\* _get_features: None when no row matches (or acs_df is None), else the
\* eight values of the first matching row, a NaN cell replaced by 0
GetFeaturesIn(acs_df, tract) ==
    LET rows == AcsMatchesIn(acs_df, tract)
    IN  IF rows = <<>> THEN None
        ELSE Some([j \in 1..Len(FEATURE_COLS) |-> FeatureValue(rows[1].cells[j])])

GetFeatures(tract) == GetFeaturesIn(ACS_DF, tract)

\* The outcomes of a fit (RobustScaler.fit_transform, BayesianRidge.fit).  The
\* libraries are not part of the repository: a fit yields one of these pairs.
\* Column j of the input row is scaled as (x - center[j]) / scale[j]; the
\* regression adds coef[j] = num/den times the scaled column to the intercept.
NCols == Len(FEATURE_COLS) + 3

Ratio(n, d) == [num |-> n, den |-> d]

ZeroCoefs == [j \in 1..NCols |-> Ratio(0, 1)]
UnitScaler == [center |-> [j \in 1..NCols |-> 0], scale |-> [j \in 1..NCols |-> 1]]

FITS ==
    { \* mild mean reversion around 45, follows the trend, fades with the years
      [run |-> 1,
       scaler |-> [center |-> [j \in 1..NCols |-> IF j = 9 THEN 45 * Unit ELSE 0],
                   scale  |-> [j \in 1..NCols |-> IF j = 9 THEN 20 ELSE 1]],
       model |-> [intercept |-> P(80),
                  coef |-> [ZeroCoefs EXCEPT ![9] = Ratio(-1, 2), ![10] = Ratio(1, 2),
                                             ![11] = Ratio(-1, 10)]]],
      \* a regression that predicts a steep decline everywhere
      [run |-> 2,
       scaler |-> UnitScaler,
       model |-> [intercept |-> -(3 * Unit), coef |-> ZeroCoefs]],
      \* a regression that predicts a steep rise, growing with broadband access
      [run |-> 3,
       scaler |-> [UnitScaler EXCEPT !.center[8] = 60 * Unit, !.scale[8] = 10],
       model |-> [intercept |-> 5 * Unit,
                  coef |-> [ZeroCoefs EXCEPT ![8] = Ratio(1, 4)]]] }

\* scaler.transform followed by model.predict on one input row (in units)
ModelPredict(m, sc, row) ==
    m.intercept
    + SumSeq([j \in 1..NCols |->
                 DivRound((row[j] - sc.center[j]) * m.coef[j].num,
                          m.coef[j].den * sc.scale[j])])

----------------------------------------------------------------------------
(* Intervention effect model *)

\* variant of InterventionBoostOf: no diminishing returns after year 3
InterventionBoostNoDiminishing(name, year) ==
    LET config == INTERVENTION_MULTIPLIERS[name]
        boost == IF 2 * (year + 1) >= config.ramp2
                 THEN config.base_boost
                 ELSE DivRound(config.base_boost * 2 * (year + 1), config.ramp2)
    IN  Min(boost, config.max_boost)

\* the boost of one recognized intervention in one simulated year
InterventionBoostOf(name, year) ==
    LET config == INTERVENTION_MULTIPLIERS[name]
        late == Max(0, year - 3)
        \* base_boost * min(1.0, (year + 1) / ramp_years) / (1.0 + 0.1 * late)
        boost == IF 2 * (year + 1) >= config.ramp2
                 THEN DivRound(config.base_boost * 10, 10 + late)
                 ELSE DivRound(config.base_boost * 2 * (year + 1) * 10,
                               config.ramp2 * (10 + late))
    IN  Min(boost, config.max_boost)

\* the loop of _compute_intervention_boost over the list
RECURSIVE BoostLoop(_, _)
BoostLoop(interventions, year) ==
    IF interventions = <<>> THEN 0
    ELSE (IF Head(interventions) \in DOMAIN INTERVENTION_MULTIPLIERS
          THEN InterventionBoostOf(Head(interventions), year)
          ELSE 0)
         + BoostLoop(Tail(interventions), year)

\* variant of Synergy: the bonus counts every list entry
SynergyOffByOne(interventions) ==
    IF Len(interventions) > 0 THEN SYNERGY_BONUS * Len(interventions) ELSE 0

\* the synergy bonus of _compute_intervention_boost
Synergy(interventions) ==
    IF Len(interventions) > 1
    THEN SYNERGY_BONUS * (Len(interventions) - 1)
    ELSE 0

\* _compute_intervention_boost
ComputeInterventionBoost(interventions, year) ==
    IF interventions = <<>> THEN 0
    ELSE BoostLoop(interventions, year) + Synergy(interventions)

----------------------------------------------------------------------------
(* The constrained recursion of ConstrainedIGSPredictor.predict *)

\* step 1 of the loop body: the regression's change, or the trend
MlChange(m, sc, features, running_igs, base_trend, year) ==
    IF features # None /\ m # None
    THEN ModelPredict(Get(m), Get(sc),
                      Get(features) \o <<running_igs, base_trend, year * Unit>>)
    ELSE base_trend

\* variant of ClipChange: the lower bound is forgotten
ClipChangeNoLower(total_change) == Min(total_change, YEARLY_CHANGE_MAX)

\* step 4: np.clip(total_change, YEARLY_CHANGE_BOUNDS['min'], ['max'])
ClipChange(total_change) == Clip(total_change, YEARLY_CHANGE_MIN, YEARLY_CHANGE_MAX)

\* variant of Dampen: no floor below 25
DampenNoFloor(running_igs, total_change) ==
    IF running_igs > HIGH_LEVEL THEN DivRound(total_change * 7, 10)
    ELSE total_change

\* variant of Dampen: the factor 0.7 applies from 70 on
DampenFromHighLevel(running_igs, total_change) ==
    IF running_igs >= HIGH_LEVEL THEN DivRound(total_change * 7, 10)
    ELSE IF running_igs < LOW_LEVEL THEN Max(total_change, LOW_FLOOR)
    ELSE total_change

\* the regression to the mean at the extremes
Dampen(running_igs, total_change) ==
    IF running_igs > HIGH_LEVEL THEN DivRound(total_change * 7, 10)
    ELSE IF running_igs < LOW_LEVEL THEN Max(total_change, LOW_FLOOR)
    ELSE total_change

\* variant of UpdateRunning: the running score is not bounded
UpdateRunningNoClip(running_igs, total_change) == running_igs + total_change

\* step 5 and the bound to the valid range
UpdateRunning(running_igs, total_change) == Clip(running_igs + total_change, 0, IGS_MAX)

\* what the loop appends for one year
Emit(running_igs) == Round2(running_igs)

\* variant of Carry: the rounded value is fed to the next iteration
CarryRounded(running_igs) == Round2(running_igs)

\* what the next iteration starts from
Carry(running_igs) == running_igs

\* one iteration of the loop, with everything it computes
Step(m, sc, features, base_trend, interventions, running_igs, year) ==
    LET ml_change == MlChange(m, sc, features, running_igs, base_trend, year)
        intervention_boost == ComputeInterventionBoost(interventions, year)
        clipped == ClipChange(ml_change + intervention_boost)
        total_change == Dampen(running_igs, clipped)
        after == UpdateRunning(running_igs, total_change)
    IN  [year |-> year, before |-> running_igs, ml_change |-> ml_change,
         boost |-> intervention_boost, clipped |-> clipped,
         total_change |-> total_change, after |-> after, carried |-> Carry(after),
         out |-> Emit(after)]

\* for year in range(years_ahead): the sequence of iterations
RECURSIVE Loop(_, _, _, _, _, _, _, _)
Loop(m, sc, features, base_trend, interventions, running_igs, year, years_ahead) ==
    IF year >= years_ahead THEN <<>>
    ELSE LET s == Step(m, sc, features, base_trend, interventions, running_igs, year)
         IN  <<s>> \o Loop(m, sc, features, base_trend, interventions,
                           s.carried, year + 1, years_ahead)

\* the list predict returns, from the iterations
Predictions(steps) == [i \in 1..Len(steps) |-> steps[i].out]

\* predict from line 354 on, for a predictor with fields m, sc, trends:
\* the outcome and, when it returns, the iterations and the returned list
PredictBody(m, sc, trends, tract_arg, interventions, years_ahead) ==
    LET tract == Zfill(tract_arg, TRACT_WIDTH)
        trend_info == IF tract \in DOMAIN trends THEN trends[tract]
                      ELSE FALLBACK_TREND_INFO
    IN  IF "latest_igs" \notin DOMAIN trend_info
        THEN [status |-> "KeyError", start |-> 0, steps |-> <<>>, predictions |-> <<>>]
        ELSE LET steps == Loop(m, sc, GetFeatures(tract), trend_info.trend,
                               interventions, trend_info.latest_igs, 0, years_ahead)
             IN  [status |-> "ok", start |-> trend_info.latest_igs,
                  steps |-> steps, predictions |-> Predictions(steps)]

\* np.sqrt(n) in thousandths, for the years of a forecast
SQRT_MILLI == [n \in 1..(MaxYears + 1) |-> ISqrt(n * 1000 * 1000)]

\* the fallback volatility of predict_with_confidence
FALLBACK_VOLATILITY == P(150)

\* uncertainty = volatility * np.sqrt(i + 1) * 0.8, for i counted from 0
Uncertainty(volatility, i) ==
    DivRound(DivRound(volatility * SQRT_MILLI[i + 1], 1000) * 8, 10)

\* variant of LowerBound: the bound is not cut at 0
LowerBoundUncut(pred, uncertainty) == Round2(pred - uncertainty)

\* round(max(0, pred - uncertainty), 2)
LowerBound(pred, uncertainty) == Round2(Max(0, pred - uncertainty))

\* round(min(100, pred + uncertainty), 2)
UpperBound(pred, uncertainty) == Round2(Min(IGS_MAX, pred + uncertainty))

\* predict_with_confidence from line 434 on: predictions is the list predict
\* returned, trends the tract_trends predict left
ConfidenceBody(trends, tract_arg, predictions, years_ahead) ==
    LET tract == Zfill(tract_arg, TRACT_WIDTH)
        volatility == IF tract \in DOMAIN trends /\ "volatility" \in DOMAIN trends[tract]
                      THEN trends[tract].volatility
                      ELSE FALLBACK_VOLATILITY
    IN  [predictions |-> predictions,
         lower_bound |-> [i \in 1..Len(predictions) |->
                             LowerBound(predictions[i], Uncertainty(volatility, i - 1))],
         upper_bound |-> [i \in 1..Len(predictions) |->
                             UpperBound(predictions[i], Uncertainty(volatility, i - 1))],
         years |-> [i \in 1..years_ahead |-> i]]

----------------------------------------------------------------------------
(* The legacy predictor: src/analysis/predict_future_igs.py *)

LEGACY_FEATURES ==
    << "median_household_income", "gini_index", "per_capita_income",
       "poverty_rate", "unemployment_rate", "labor_force_participation_rate",
       "housing_cost_burden_rate", "broadband_access_rate", "computer_access_rate",
       "median_home_value", "white_alone_pct", "black_alone_pct",
       "hispanic_latino_pct" >>

\* INTERVENTIONS: the features each intervention type changes
LEGACY_INTERVENTIONS ==
    [digital          |-> {"broadband_access_rate", "computer_access_rate"},
     housing          |-> {"housing_cost_burden_rate", "median_home_value"},
     entrepreneurship |-> {"per_capita_income", "median_household_income"},
     workforce        |-> {"labor_force_participation_rate", "unemployment_rate"}]

\* INTERVENTION_DELTAS, in whole points
LEGACY_INTERVENTION_DELTAS ==
    [broadband_access_rate |-> 6, computer_access_rate |-> 5,
     housing_cost_burden_rate |-> -5, median_home_value |-> 5,
     per_capita_income |-> 7, median_household_income |-> 5,
     labor_force_participation_rate |-> 5, unemployment_rate |-> -3]

\* position of a column in the ACS file, 0 when the file does not have it
AcsColumn(name) ==
    IF \E j \in 1..Len(FEATURE_COLS) : FEATURE_COLS[j] = name
    THEN CHOOSE j \in 1..Len(FEATURE_COLS) : FEATURE_COLS[j] = name
    ELSE 0

\* [acs_features.get(fk, 0.0) for fk in self.features]: cells, NaN kept
LegacyFeatureVector(row) ==
    [j \in 1..Len(LEGACY_FEATURES) |->
        IF AcsColumn(LEGACY_FEATURES[j]) = 0 THEN Num(0)
        ELSE row.cells[AcsColumn(LEGACY_FEATURES[j])]]

\* _apply_interventions: each recognized type adds its deltas, once per mention
RECURSIVE LegacyApplyInterventions(_, _)
LegacyApplyInterventions(feature_vector, interventions) ==
    IF interventions = <<>> THEN feature_vector
    ELSE LET type == Head(interventions)
             modified ==
                 IF type \notin DOMAIN LEGACY_INTERVENTIONS THEN feature_vector
                 ELSE [j \in 1..Len(LEGACY_FEATURES) |->
                          IF LEGACY_FEATURES[j] \in LEGACY_INTERVENTIONS[type]
                          THEN [feature_vector[j] EXCEPT
                                   !.v = @ + LEGACY_INTERVENTION_DELTAS[LEGACY_FEATURES[j]]]
                          ELSE feature_vector[j]]
         IN  LegacyApplyInterventions(modified, Tail(interventions))

\* The outcome of Ridge.fit on the data files (the library is not part of the
\* repository): next score = intercept + prev_coef * prev + year_coef * (year - 2020)
\* + feature_coef * (sum of the features), the coefficients as ratios
LEGACY_FIT ==
    [fitted |-> TRUE,
     intercept |-> 3 * Unit, prev_coef |-> Ratio(19, 20), year_coef |-> Ratio(1, 10),
     feature_coef |-> Ratio(1, 100)]

\* Ridge(alpha=alpha) before fit: an estimator without coefficients
LEGACY_UNFITTED ==
    [fitted |-> FALSE,
     intercept |-> 0, prev_coef |-> Ratio(0, 1), year_coef |-> Ratio(0, 1),
     feature_coef |-> Ratio(0, 1)]

\* Ridge.predict on one input row [year] + feature_vector + [prev_igs]
LegacyModelPredict(m, year, feature_vector, prev_igs) ==
    m.intercept
    + DivRound(prev_igs * m.prev_coef.num, m.prev_coef.den)
    + DivRound((year - 2020) * Unit * m.year_coef.num, m.year_coef.den)
    + DivRound(SumSeq([j \in 1..Len(feature_vector) |-> feature_vector[j].v])
                   * Unit * m.feature_coef.num, m.feature_coef.den)

\* the loop of IGSPredictor.predict: the returned list
RECURSIVE LegacyLoop(_, _, _, _, _, _)
LegacyLoop(m, current_year, feature_vector, prev_igs, step, years_ahead) ==
    IF step > years_ahead THEN <<>>
    ELSE LET pred == Clip(LegacyModelPredict(m, current_year + step, feature_vector, prev_igs),
                          0, IGS_MAX)
         IN  <<pred>> \o LegacyLoop(m, current_year, feature_vector, pred,
                                    step + 1, years_ahead)

\* IGSPredictor.predict from line 176 on, for a loaded model m
LegacyPredictBody(m, tract_arg, interventions, years_ahead) ==
    LET tract == Zfill(tract_arg, TRACT_WIDTH)
        tract_acs_cand == AcsMatches(tract)
        tract_igs == TractData(tract)
        failed(status, nan) ==
            [status |-> status, predictions |-> <<>>, nan_in_row |-> nan]
    IN  IF tract_acs_cand = <<>> THEN failed("ValueError: No ACS data found", FALSE)
        ELSE IF tract_igs = <<>> THEN failed("ValueError: No IGS data found", FALSE)
        ELSE LET last_record == tract_igs[Len(tract_igs)]
                 base == LegacyFeatureVector(tract_acs_cand[1])
                 feature_vector == IF interventions # <<>>
                                   THEN LegacyApplyInterventions(base, interventions)
                                   ELSE base
                 \* the input row of the first step holds a NaN cell
                 nan == years_ahead >= 1
                           /\ \E j \in 1..Len(feature_vector) : feature_vector[j].nan
             IN  \* Ridge.predict refuses an estimator that was never fitted,
                 \* and then an input row that holds a NaN
                 IF years_ahead >= 1 /\ ~m.fitted THEN failed("NotFittedError", nan)
                 ELSE IF nan THEN failed("ValueError: Input contains NaN", TRUE)
                 ELSE [status |-> "ok",
                       predictions |-> LegacyLoop(m, last_record.year, feature_vector,
                                                  last_record.score, 1, years_ahead),
                       nan_in_row |-> FALSE]

----------------------------------------------------------------------------
(* The ensemble: ml/models/ensemble_predictor.py *)

\* TrendExtrapolator(alpha=0.35): alpha as a ratio
TREND_ALPHA == Ratio(7, 20)

\* the exponential smoothing of fit: smoothed = alpha * change + (1 - alpha) * smoothed
RECURSIVE Smooth(_, _)
Smooth(smoothed, changes) ==
    IF changes = <<>> THEN smoothed
    ELSE Smooth(DivRound(TREND_ALPHA.num * Head(changes)
                            + (TREND_ALPHA.den - TREND_ALPHA.num) * smoothed,
                         TREND_ALPHA.den),
                Tail(changes))

\* TrendExtrapolator.fit: the entry of one tract with rows td
SmoothedTrendOf(td) ==
    LET scores == ScoresOf(td)
    IN  IF Len(scores) < 2
        THEN [smoothed_trend |-> 0, latest |-> scores[Len(scores)]]
        ELSE [smoothed_trend |-> Smooth(Diff(scores)[1], Tail(Diff(scores))),
              latest |-> scores[Len(scores)]]

\* the fallback entries of the two component predictors
TREND_FALLBACK == [smoothed_trend |-> P(50), latest |-> 23 * Unit]
BENCHMARK_FALLBACK == [latest |-> 23 * Unit]

\* the loop of TrendExtrapolator.predict; decayed is trend * 0.9 ** year
RECURSIVE TrendLoop(_, _, _, _)
TrendLoop(decayed, current, year, years_ahead) ==
    IF year >= years_ahead THEN <<>>
    ELSE LET change == ClipChange(decayed)
             next == Clip(current + change, 0, IGS_MAX)
         IN  <<Round2(next)>>
             \o TrendLoop(DivRound(decayed * 9, 10), next, year + 1, years_ahead)

\* TrendExtrapolator.predict(tract, years_ahead)
TrendPredict(trends, tract_arg, years_ahead) ==
    LET tract == Zfill(tract_arg, TRACT_WIDTH)
        info == IF tract \in DOMAIN trends THEN trends[tract] ELSE TREND_FALLBACK
    IN  TrendLoop(info.smoothed_trend, info.latest, 0, years_ahead)

\* BenchmarkConverger(convergence_rate=0.08), benchmark_igs = 50 by default
CONVERGENCE_RATE == Ratio(2, 25)
DEFAULT_BENCHMARK_IGS == 50 * Unit

\* rate *= (1 + 0.15 * len(interventions)): the factor in hundredths
RateFactor(interventions) == 100 + 15 * Len(interventions)

\* the loop of BenchmarkConverger.predict
RECURSIVE BenchmarkLoop(_, _, _, _, _)
BenchmarkLoop(benchmark_igs, factor, current, year, years_ahead) ==
    IF year >= years_ahead THEN <<>>
    ELSE LET gap == benchmark_igs - current
             closed == DivRound(DivRound(gap * CONVERGENCE_RATE.num, CONVERGENCE_RATE.den)
                                   * factor, 100)
             change == IF 100 * current > 85 * benchmark_igs
                       THEN DivRound(closed, 2) ELSE closed
             next == Clip(current + ClipChange(change), 0, IGS_MAX)
         IN  <<Round2(next)>>
             \o BenchmarkLoop(benchmark_igs, factor, next, year + 1, years_ahead)

\* BenchmarkConverger.predict(tract, interventions, years_ahead)
BenchmarkPredict(tracts, benchmark_igs, tract_arg, interventions, years_ahead) ==
    LET tract == Zfill(tract_arg, TRACT_WIDTH)
        info == IF tract \in DOMAIN tracts THEN tracts[tract] ELSE BENCHMARK_FALLBACK
    IN  BenchmarkLoop(benchmark_igs, RateFactor(interventions), info.latest, 0, years_ahead)

\* EnsembleIGSPredictor.fit reads the IGS file itself and zero-fills the keys
EnsIgsDf(d) ==
    LET igs == IgsCsv(d)
    IN  [i \in 1..Len(igs) |-> [igs[i] EXCEPT !.fips = Zfill(igs[i].fips, TRACT_WIDTH)]]

\* TrendExtrapolator.fit and BenchmarkConverger.fit on that frame
ComponentFit(igs_df) ==
    LET latest == [t \in TractsOf(igs_df) |->
                      [latest |-> ScoresOf(TractDataIn(igs_df, t))[Len(TractDataIn(igs_df, t))]]]
    IN  [trends |-> [t \in TractsOf(igs_df) |-> SmoothedTrendOf(TractDataIn(igs_df, t))],
         tracts |-> latest,
         benchmark_igs |-> IF T_BENCH \in DOMAIN latest THEN latest[T_BENCH].latest
                           ELSE DEFAULT_BENCHMARK_IGS]

\* the component fits of every dataset, computed once
COMPONENT_FITS == [d \in Datasets |-> ComponentFit(EnsIgsDf(d))]

\* the weights in hundredths: the defaults of __init__ ...
DEFAULT_WEIGHTS == [ml |-> 50, trend |-> 30, benchmark |-> 20]
\* ... and dictionaries a caller may pass, which __init__ takes as they are
WeightConfigs ==
    { DEFAULT_WEIGHTS,
      [ml |-> 100, trend |-> 100, benchmark |-> 100],
      [ml |-> 150, trend |-> -30, benchmark |-> -20] }

\* w_ml * a + w_trend * b + w_benchmark * c for weights in hundredths and
\* component values that are whole hundredths (they were rounded)
Weighted(weights, a, b, c) ==
    DivRound((weights.ml * (a \div Cent) + weights.trend * (b \div Cent)
                 + weights.benchmark * (c \div Cent)) * (Cent \div 10), 10)

\* variant of EnsembleCombine: the benchmark weight is applied to the trend sequence
EnsembleCombineTrendTwice(weights, ml_pred, trend_pred, benchmark_pred, years_ahead) ==
    [i \in 1..years_ahead |->
        Round2(Weighted(weights, ml_pred[i], trend_pred[i], trend_pred[i]))]

\* the weighted ensemble of predict: one rounded weighted sum per year
EnsembleCombine(weights, ml_pred, trend_pred, benchmark_pred, years_ahead) ==
    [i \in 1..years_ahead |->
        Round2(Weighted(weights, ml_pred[i], trend_pred[i], benchmark_pred[i]))]

\* predict of the ensemble e from line 241 on; ml is the outcome of
\* ml_predictor.predict
EnsembleBody(e, ml, tract, interventions, years_ahead) ==
    IF ml.status # "ok"
    THEN [status |-> ml.status, ml_pred |-> <<>>, trend_pred |-> <<>>,
          benchmark_pred |-> <<>>, predictions |-> <<>>]
    ELSE LET trend_pred == TrendPredict(e.trends, tract, years_ahead)
             benchmark_pred == BenchmarkPredict(e.tracts, e.benchmark_igs, tract,
                                                interventions, years_ahead)
         IN  [status |-> "ok", ml_pred |-> ml.predictions, trend_pred |-> trend_pred,
              benchmark_pred |-> benchmark_pred,
              predictions |-> EnsembleCombine(e.weights, ml.predictions, trend_pred,
                                              benchmark_pred, years_ahead)]

----------------------------------------------------------------------------
(* Request validation: api/predict.py, submission/Code/api/predict.py,
   frontend/api/predict.py *)

Ok(v) == [ok |-> TRUE, value |-> v, error |-> ""]
Raise(e) == [ok |-> FALSE, value |-> <<>>, error |-> e]

\* the width check that follows the zero fill in validate_tract
TractWidthOk(tract_str) == Len(tract_str) >= TRACT_WIDTH

\* the normalization expression of validate_tract
TractDigits(tract) == Zfill(OnlyDigits(Strip(tract)), TRACT_WIDTH)

\* validate_tract (api/predict.py and submission/Code/api/predict.py)
validate_tract(tract) ==
    IF tract = <<>> THEN Raise("ValueError: Tract FIPS code is required")
    ELSE LET tract_str == TractDigits(tract)
         IN  IF ~TractWidthOk(tract_str) THEN Raise("ValueError: Invalid tract FIPS code")
             ELSE Ok(tract_str)

\* variant of normalize_fips: the zero fill comes before the digit filter
normalize_fips_fill_first(fips) ==
    IF fips = <<>> THEN Raise("ValueError: FIPS code is required")
    ELSE LET fips_clean == OnlyDigits(Zfill(fips, TRACT_WIDTH))
         IN  IF Len(fips_clean) > ACS_WIDTH THEN Raise("ValueError: Invalid FIPS code: too long")
             ELSE Ok(fips_clean)

\* the last line of normalize_fips
FipsFill(fips_clean) == Zfill(fips_clean, TRACT_WIDTH)

\* normalize_fips (frontend/api/predict.py)
normalize_fips(fips) ==
    IF fips = <<>> THEN Raise("ValueError: FIPS code is required")
    ELSE LET fips_clean == OnlyDigits(fips)
         IN  IF Len(fips_clean) > ACS_WIDTH THEN Raise("ValueError: Invalid FIPS code: too long")
             ELSE Ok(FipsFill(fips_clean))

\* str(i).lower().strip() on the intervention tokens the model uses
LowerStrip(token) ==
    CASE token = " Digital" -> "digital"
      [] token = "HOUSING " -> "housing"
      [] OTHER -> token

VALID_INTERVENTIONS ==
    {"digital", "housing", "entrepreneurship", "workforce", "health", "policy"}

\* validate_interventions on a list (submission/Code/api/predict.py)
RECURSIVE validate_interventions(_)
validate_interventions(interventions) ==
    IF interventions = <<>> THEN <<>>
    ELSE LET i_str == LowerStrip(Head(interventions))
         IN  (IF i_str \in VALID_INTERVENTIONS THEN <<i_str>> ELSE <<>>)
             \o validate_interventions(Tail(interventions))

MIN_YEARS == 1
MAX_YEARS == 15
DEFAULT_YEARS == 5

\* parse_years: value is None when int(value) raises, else Some(the integer)
parse_years(value) ==
    IF value = None THEN DEFAULT_YEARS
    ELSE Max(MIN_YEARS, Min(Get(value), MAX_YEARS))

----------------------------------------------------------------------------
(* Inputs *)

\* tract arguments of direct predictor calls; <<"1", "2">> is T_ONE unpadded
TractArgs == {T_MID, T_RISE, T_LOW, T_TOP, T_NEAR, T_EDGE, <<"1", "2">>, T_ACS, T_NONE}

InterventionNames == {"digital", "housing", "not_a_real_intervention"}

\* all sequences over S of length at most n
RECURSIVE SeqsUpTo(_, _)
SeqsUpTo(S, n) ==
    IF n = 0 THEN {<<>>}
    ELSE LET shorter == SeqsUpTo(S, n - 1)
         IN  shorter \cup {Append(q, x) : q \in shorter, x \in S}

InterventionLists == SeqsUpTo(InterventionNames, MaxInterventions)
YearsAhead == 0..MaxYears

\* request fields as a client may send them
RawTokens == {"digital", " Digital", "housing", "not_a_real_intervention"}
RawInterventionLists == SeqsUpTo(RawTokens, MaxInterventions)
RawTractSamples ==
    { <<>>, <<"1", "2">>, <<"a", "b", "c">>, <<" ">> \o T_RISE,
      <<"1", "1", "2", "1", "-", "0", "1", "0", "5", "0", "0">> }
RawYears == {None, Some(0), Some(2)}

LegacyInterventionLists == SeqsUpTo({"digital", "not_a_real_intervention"}, 1)

\* arguments of calls of predict_with_confidence
ConfTractArgs == {T_MID, T_RISE, T_TOP, T_ZERO, <<"1", "2">>, T_NONE}
ConfInterventionLists == SeqsUpTo({"digital"}, MaxInterventions)

\* arguments of the calls made when the data files vary
DataTractArgs == {T_MID, T_RISE, T_NONE}
DataInterventionLists == {<<>>, <<"digital">>}
DataHorizons == {0, 1, MaxYears}

\* arguments of direct calls of _compute_intervention_boost: lists of
\* distinct names of the intervention table, and year indices
BoostLists ==
    {L \in SeqsUpTo(DOMAIN INTERVENTION_MULTIPLIERS, MaxInterventions + 1) :
        \A i, j \in 1..Len(L) : i # j => L[i] # L[j]}
BoostYears == 0..MaxYears

\* tract arguments of calls of the ensemble
EnsTractArgs == {T_MID, T_TOP, T_LOW, T_BENCH, <<"1", "2">>, T_NONE}
EnsInterventionLists == SeqsUpTo({"digital", "not_a_real_intervention"}, MaxInterventions)

----------------------------------------------------------------------------
(* State machine *)

EmptyTrends == [t \in {} |-> [trend |-> 0]]

\* no EnsembleIGSPredictor has been constructed
NoEnsemble ==
    [exists |-> FALSE, weights |-> [ml |-> 0, trend |-> 0, benchmark |-> 0],
     is_fitted |-> FALSE, trends |-> EmptyTrends, tracts |-> EmptyTrends,
     benchmark_igs |-> 0]

Idle ==
    [kind |-> "idle", nth |-> 0, tract |-> <<>>, interventions |-> <<>>,
     years_ahead |-> 0, was_fitted |-> FALSE, status |-> "", start |-> 0,
     steps |-> <<>>, predictions |-> <<>>, baseline |-> <<>>,
     raw_tract |-> <<>>, raw_interventions |-> <<>>,
     lower_bound |-> <<>>, upper_bound |-> <<>>, years |-> <<>>,
     ml_pred |-> <<>>, trend_pred |-> <<>>, benchmark_pred |-> <<>>,
     before |-> <<>>, had_file |-> FALSE, nan_in_row |-> FALSE, boost |-> 0,
     examples |-> <<>>]

NormIdle == [fn |-> "", input |-> <<>>, applied |-> 0, first |-> Raise(""), second |-> Raise("")]

\* variant of SavedDict: the trends are left out of the file
SavedDictWithoutTrends(m, sc, trends) ==
    [model |-> m, scaler |-> sc, tract_trends |-> EmptyTrends]

\* joblib.dump of save(): model, scaler and tract_trends in one file
SavedDict(m, sc, trends) == [model |-> m, scaler |-> sc, tract_trends |-> trends]

\* the predictor's fields and the model file after a train() that returned,
\* with fit outcome f
TrainResult(trends, f) ==
    [status |-> "ok",
     model |-> Some(f.model), scaler |-> Some(f.scaler), tract_trends |-> trends,
     model_file |-> Some(SavedDict(Some(f.model), Some(f.scaler), trends))]

\* igs_df['Census Tract FIPS code'].unique(): the tracts in the order of
\* their first row
UniqueTracts(igs_df) ==
    LET first == SelectSeq([i \in 1..Len(igs_df) |-> i],
                           LAMBDA i : \A j \in 1..(i - 1) : igs_df[j].fips # igs_df[i].fips)
    IN  [k \in 1..Len(first) |-> igs_df[first[k]].fips]

\* variant of ExamplesOfTract: the step index is counted from 1
ExamplesOfTractOneBased(igs_df, acs_df, trends, tract) ==
    LET features == GetFeaturesIn(acs_df, tract)
        igs_scores == ScoresOf(TractDataIn(igs_df, tract))
    IN  IF features = None THEN <<>>
        ELSE [i \in 1..(Len(igs_scores) - 1) |->
                 [tract |-> tract,
                  input |-> Get(features) \o <<igs_scores[i], trends[tract].trend, i * Unit>>,
                  target |-> igs_scores[i + 1] - igs_scores[i]]]

\* the body of the loop of train() over the tracts: the rows one tract adds to
\* X and y (the tract is kept with each row to tell the rows apart)
ExamplesOfTract(igs_df, acs_df, trends, tract) ==
    LET features == GetFeaturesIn(acs_df, tract)
        igs_scores == ScoresOf(TractDataIn(igs_df, tract))
    IN  IF features = None THEN <<>>
        ELSE [i \in 1..(Len(igs_scores) - 1) |->
                 [tract |-> tract,
                  input |-> Get(features)
                               \o <<igs_scores[i], trends[tract].trend, (i - 1) * Unit>>,
                  target |-> igs_scores[i + 1] - igs_scores[i]]]

RECURSIVE Flatten(_)
Flatten(seqs) == IF seqs = <<>> THEN <<>> ELSE Head(seqs) \o Flatten(Tail(seqs))

\* X and y as train() has them at line 229 (the empty sequence when the
\* loop does not get there)
TrainingExamplesIn(igs_df, acs_df, trends, found) ==
    LET tracts == UniqueTracts(igs_df)
    IN  IF ~found
           \/ \E k \in 1..Len(tracts) :
                 /\ GetFeaturesIn(acs_df, tracts[k]) # None
                 /\ Len(TractDataIn(igs_df, tracts[k])) >= 2
                 /\ tracts[k] \notin DOMAIN trends
        THEN <<>>
        ELSE Flatten([k \in 1..Len(tracts) |->
                         ExamplesOfTract(igs_df, acs_df, trends, tracts[k])])

\* the rows of X in train(): the years but the last of every tract that
\* has a feature row
TrainingPairsIn(igs_df, acs_df) ==
    {i \in 1..Len(igs_df) :
        /\ GetFeaturesIn(acs_df, igs_df[i].fips) # None
        /\ \E j \in 1..Len(igs_df) :
              igs_df[j].fips = igs_df[i].fips /\ igs_df[j].year > igs_df[i].year}

\* the pairs of every dataset, computed once
TRAINING_PAIRS == [d \in Datasets |-> TrainingPairsIn(LOADED[d].igs_df, LOADED[d].acs_df)]

TrainingPairs == TRAINING_PAIRS[data]

\* TimeSeriesSplit(n_splits=min(3, len(X) // 4)) raises unless n_splits >= 2
MIN_SPLITS == 2
CvSplits(n) == Min(3, n \div 4)

\* variant of TrainOutcome: when the cross-validation raises, the new scaler
\* is kept next to the previous model
TrainOutcomeScalerOnly(m, sc, trends, file, f) ==
    LET left(status, m2, sc2) ==
            [status |-> status, model |-> m2, scaler |-> sc2,
             tract_trends |-> trends, model_file |-> file]
    IN  IF ~IgsFound THEN left("ValueError: No IGS data loaded", m, sc)
        ELSE IF \E i \in TrainingPairs : IGS_DF[i].fips \notin DOMAIN trends
        THEN left("KeyError", m, sc)
        ELSE IF TrainingPairs = {}
        THEN left("ValueError: No training data available", m, sc)
        ELSE IF CvSplits(Cardinality(TrainingPairs)) < MIN_SPLITS
        THEN left("ValueError: n_splits", m, Some(f.scaler))
        ELSE TrainResult(trends, f)

\* train() on a predictor with fields m, sc, trends and model file `file`:
\* its outcome, the fields and the file it leaves
TrainOutcome(m, sc, trends, file, f) ==
    LET left(status, m2, sc2) ==
            [status |-> status, model |-> m2, scaler |-> sc2,
             tract_trends |-> trends, model_file |-> file]
    IN  IF ~IgsFound THEN left("ValueError: No IGS data loaded", m, sc)
        ELSE IF \E i \in TrainingPairs : IGS_DF[i].fips \notin DOMAIN trends
        THEN left("KeyError", m, sc)
        ELSE IF TrainingPairs = {}
        THEN left("ValueError: No training data available", m, sc)
        ELSE IF CvSplits(Cardinality(TrainingPairs)) < MIN_SPLITS
        THEN \* scaler and model are fitted and set, save() is not reached
             left("ValueError: n_splits", Some(f.model), Some(f.scaler))
        ELSE TrainResult(trends, f)

\* the predictor's fields and the model file after load(); f is the fit outcome
\* should load() have to train
LoadResult(m, sc, trends, file, f) ==
    IF file = None THEN TrainOutcome(m, sc, trends, file, f)
    ELSE [status |-> "ok", model |-> Get(file).model, scaler |-> Get(file).scaler,
          tract_trends |-> Get(file).tract_trends, model_file |-> file]

\* the fit outcomes an operation can meet: all of them when it trains,
\* and a single placeholder when it does not fit anything
FitChoices(trains) == IF trains THEN FITS ELSE {CHOOSE f \in FITS : f.run = 1}

\* variant of EnsureLoaded: every call fits anew
EnsureLoadedRetrain(m, sc, trends, file, f) == TrainResult(trends, f)

\* lines 350-352 of predict: load() when no model is set
EnsureLoaded(m, sc, trends, file, f) ==
    IF m = None THEN LoadResult(m, sc, trends, file, f)
    ELSE [status |-> "ok", model |-> m, scaler |-> sc, tract_trends |-> trends,
          model_file |-> file]

\* self.tract_trends after __init__: _compute_tract_trends is reached when
\* both files were read
LoadedTrends == IF AcsFound THEN ComputeTractTrends ELSE EmptyTrends

Init ==
    /\ data = "full"
    /\ ens = NoEnsemble
    /\ constructed = FALSE
    /\ model = None
    /\ scaler = None
    /\ tract_trends = EmptyTrends
    /\ model_file \in {None} \cup {TrainResult(ComputeTractTrends, f).model_file : f \in FITS}
    /\ legacy_model = None
    /\ legacy_file = None
    /\ call = Idle
    /\ norm = NormIdle

\* ConstrainedIGSPredictor(): __init__ and _load_data
Construct ==
    /\ ~constructed
    /\ call.kind = "idle"
    /\ constructed' = TRUE
    /\ model' = None
    /\ scaler' = None
    /\ tract_trends' = LoadedTrends
    /\ UNCHANGED <<model_file, legacy_model, legacy_file, call, norm, data, ens>>

\* train(): collect the pairs, fit scaler and regression, cross-validate,
\* then save()
Train ==
    /\ constructed
    /\ call.kind = "idle"
    /\ \E f \in FitChoices(TrainingPairs # {}) :
          \E r \in {TrainOutcome(model, scaler, tract_trends, model_file, f)} :
          \E ex \in {TrainingExamplesIn(IGS_DF, ACS_DF, tract_trends, IgsFound)} :
              /\ model' = r.model
              /\ scaler' = r.scaler
              /\ model_file' = r.model_file
              /\ call' = [Idle EXCEPT !.kind = "train", !.nth = 1,
                             !.was_fitted = (model # None), !.status = r.status,
                             !.before = <<model, scaler, model_file>>,
                             !.examples = ex]
    /\ UNCHANGED <<constructed, tract_trends, legacy_model, legacy_file, norm, data, ens>>

\* load(): read the model file, or train when there is none
Load ==
    /\ constructed
    /\ call.kind = "idle"
    /\ \E f \in FitChoices(model_file = None /\ TrainingPairs # {}) :
          \E r \in {LoadResult(model, scaler, tract_trends, model_file, f)} :
              /\ model' = r.model
              /\ scaler' = r.scaler
              /\ tract_trends' = r.tract_trends
              /\ model_file' = r.model_file
              /\ call' = [Idle EXCEPT !.kind = "load", !.nth = 1,
                             !.was_fitted = (model # None), !.status = r.status,
                             !.before = <<model, scaler, model_file>>]
    /\ UNCHANGED <<constructed, legacy_model, legacy_file, norm, data, ens>>

\* predict: load() when no model is set, and the body when load() returned
PredictOutcome(r, tract, interventions, years_ahead) ==
    IF r.status # "ok"
    THEN [status |-> r.status, start |-> 0, steps |-> <<>>, predictions |-> <<>>]
    ELSE PredictBody(r.model, r.scaler, r.tract_trends, tract, interventions, years_ahead)

\* one call of predict on the instance: the fields it leaves and its outcome
PredictCall(nth, tract, interventions, years_ahead) ==
    \E f \in FitChoices(model = None /\ model_file = None /\ TrainingPairs # {}) :
       \E r \in {EnsureLoaded(model, scaler, tract_trends, model_file, f)} :
       \E b \in {PredictOutcome(r, tract, interventions, years_ahead)} :
           /\ model' = r.model
           /\ scaler' = r.scaler
           /\ tract_trends' = r.tract_trends
           /\ model_file' = r.model_file
           /\ call' = [Idle EXCEPT !.kind = "predict", !.nth = nth, !.tract = tract,
                          !.interventions = interventions, !.years_ahead = years_ahead,
                          !.was_fitted = (model # None),
                          !.had_file = (model_file # None), !.status = b.status,
                          !.start = b.start, !.steps = b.steps,
                          !.predictions = b.predictions]

\* predict(tract, interventions, years_ahead), called directly with
\* arguments from the given sets
PredictWith(tracts, lists, horizons) ==
    /\ constructed
    /\ call.kind = "idle"
    /\ \E tract \in tracts, interventions \in lists, years_ahead \in horizons :
          PredictCall(1, tract, interventions, years_ahead)
    /\ UNCHANGED <<constructed, legacy_model, legacy_file, norm, data, ens>>

Predict == PredictWith(TractArgs, InterventionLists, YearsAhead)

\* the same call made once more, right after the first
PredictAgain ==
    /\ constructed
    /\ call.kind = "predict"
    /\ call.nth = 1
    /\ PredictCall(2, call.tract, call.interventions, call.years_ahead)
    /\ UNCHANGED <<constructed, legacy_model, legacy_file, norm, data, ens>>

\* predict_with_confidence(tract, interventions, years_ahead)
PredictWithConfidence ==
    /\ constructed
    /\ call.kind = "idle"
    /\ \E tract \in ConfTractArgs, interventions \in ConfInterventionLists,
          years_ahead \in YearsAhead :
       \E f \in FitChoices(model = None /\ model_file = None /\ TrainingPairs # {}) :
       \E r \in {EnsureLoaded(model, scaler, tract_trends, model_file, f)} :
       \E b \in {PredictOutcome(r, tract, interventions, years_ahead)} :
       \E c \in {ConfidenceBody(r.tract_trends, tract, b.predictions, years_ahead)} :
           /\ model' = r.model
           /\ scaler' = r.scaler
           /\ tract_trends' = r.tract_trends
           /\ model_file' = r.model_file
           /\ call' = [Idle EXCEPT !.kind = "confidence", !.nth = 1, !.tract = tract,
                          !.interventions = interventions, !.years_ahead = years_ahead,
                          !.was_fitted = (model # None),
                          !.had_file = (model_file # None), !.status = b.status,
                          !.start = b.start, !.steps = b.steps,
                          !.predictions = IF b.status = "ok" THEN c.predictions ELSE <<>>,
                          !.lower_bound = IF b.status = "ok" THEN c.lower_bound ELSE <<>>,
                          !.upper_bound = IF b.status = "ok" THEN c.upper_bound ELSE <<>>,
                          !.years = IF b.status = "ok" THEN c.years ELSE <<>>]
    /\ UNCHANGED <<constructed, legacy_model, legacy_file, norm, data, ens>>

\* the caller drops the result
Return ==
    /\ call.kind # "idle"
    /\ call' = Idle
    /\ UNCHANGED <<constructed, model, scaler, tract_trends, model_file,
                   legacy_model, legacy_file, norm, data, ens>>

\* handle_prediction_request of submission/Code/api/predict.py, with
\* get_predictor: validation, the forecast and the baseline forecast
HandlePredictionRequest ==
    /\ call.kind = "idle"
    /\ \E raw_tract \in RawTractSamples, raw_interventions \in RawInterventionLists,
          raw_years \in RawYears,
          f \in FitChoices((~constructed \/ model = None) /\ model_file = None) :
          LET tract == validate_tract(raw_tract)
              interventions == validate_interventions(raw_interventions)
              years_ahead == parse_years(raw_years)
              request == [Idle EXCEPT !.kind = "request", !.nth = 1,
                             !.raw_tract = raw_tract,
                             !.raw_interventions = raw_interventions,
                             !.interventions = interventions,
                             !.years_ahead = years_ahead]
          IN  IF ~tract.ok
              THEN /\ call' = [request EXCEPT !.status = tract.error]
                   /\ UNCHANGED <<constructed, model, scaler, tract_trends, model_file>>
              ELSE \* get_predictor(): construct and load() on first use
                   \E r \in {IF constructed
                              THEN EnsureLoaded(model, scaler, tract_trends, model_file, f)
                              ELSE LoadResult(None, None, LoadedTrends, model_file, f)} :
                   \E b \in {PredictBody(r.model, r.scaler, r.tract_trends,
                                          tract.value, interventions, years_ahead)},
                      base \in {PredictBody(r.model, r.scaler, r.tract_trends,
                                             tract.value, <<>>, years_ahead)} :
                       /\ constructed' = TRUE
                       /\ model' = r.model
                       /\ scaler' = r.scaler
                       /\ tract_trends' = r.tract_trends
                       /\ model_file' = r.model_file
                       /\ call' = [request EXCEPT !.tract = tract.value,
                                      !.was_fitted = (constructed /\ model # None),
                                      !.status = b.status, !.start = b.start,
                                      !.steps = b.steps, !.predictions = b.predictions,
                                      !.baseline = base.predictions]
    /\ UNCHANGED <<legacy_model, legacy_file, norm, data, ens>>

\* IGSPredictor.train_model() on a predictor with model m and model file
\* `file`: self.model is set to a new Ridge before fit is called, and fit
\* raises on an empty X; the file is written after the fit
LegacyTrainOutcome(m, file) ==
    IF TrainingPairs = {}
    THEN [status |-> "ValueError: Ridge.fit", model |-> Some(LEGACY_UNFITTED), file |-> file]
    ELSE [status |-> "ok", model |-> Some(LEGACY_FIT), file |-> Some(LEGACY_FIT)]

\* IGSPredictor.train_model(); an IGSPredictor exists only when both data
\* files were read, its constructor raises otherwise
LegacyTrain ==
    /\ call.kind = "idle"
    /\ AcsFound
    /\ \E r \in {LegacyTrainOutcome(legacy_model, legacy_file)} :
          /\ legacy_model' = r.model
          /\ legacy_file' = r.file
          /\ call' = [Idle EXCEPT !.kind = "legacy_train", !.nth = 1,
                         !.was_fitted = (legacy_model # None), !.status = r.status,
                         !.before = <<legacy_model, legacy_file>>]
    /\ UNCHANGED <<constructed, model, scaler, tract_trends, model_file, norm, data, ens>>

\* IGSPredictor.predict(tract, interventions, years_ahead) with arguments
\* from the given sets
LegacyPredictWith(tracts, lists, horizons) ==
    /\ call.kind = "idle"
    /\ AcsFound
    /\ \E tract \in tracts, interventions \in lists, years_ahead \in horizons :
          LET made == [Idle EXCEPT !.kind = "legacy", !.nth = 1, !.tract = tract,
                          !.interventions = interventions, !.years_ahead = years_ahead,
                          !.was_fitted = (legacy_model # None),
                          !.had_file = (legacy_file # None)]
          IN  IF legacy_model = None /\ legacy_file = None
              THEN \* load_model() raises
                   /\ call' = [made EXCEPT !.status = "FileNotFoundError"]
                   /\ UNCHANGED legacy_model
              ELSE \E m \in {IF legacy_model = None THEN legacy_file ELSE legacy_model} :
                   \E b \in {LegacyPredictBody(Get(m), tract, interventions, years_ahead)} :
                       /\ legacy_model' = m
                       /\ call' = [made EXCEPT !.status = b.status,
                                      !.predictions = b.predictions,
                                      !.nan_in_row = b.nan_in_row]
    /\ UNCHANGED <<constructed, model, scaler, tract_trends, model_file, legacy_file, norm, data, ens>>

LegacyPredict == LegacyPredictWith(TractArgs, LegacyInterventionLists, YearsAhead)

Next ==
    \/ Construct
    \/ Train
    \/ Load
    \/ Predict
    \/ PredictAgain
    \/ PredictWithConfidence
    \/ Return
    \/ HandlePredictionRequest
    \/ LegacyTrain
    \/ LegacyPredict

Spec == Init /\ [][Next]_vars

----------------------------------------------------------------------------
(* Tract normalization on its own: a raw string is normalized, and the
   result is normalized once more *)

RawChars == {"0", "1", "a", " ", "-"}

RawTracts ==
    SeqsUpTo(RawChars, MaxRawLen)
    \cup RawTractSamples
    \cup { T_MID, <<"0">> \o T_MID, <<"0", "0">> \o T_MID, <<"1">> \o T_MID \o <<"-", "7">> }

Normalizers == {"validate_tract", "normalize_fips"}

ApplyNormalizer(fn, x) ==
    IF fn = "validate_tract" THEN validate_tract(x) ELSE normalize_fips(x)

NormInit ==
    /\ data = "full"
    /\ ens = NoEnsemble
    /\ constructed = FALSE
    /\ model = None
    /\ scaler = None
    /\ tract_trends = EmptyTrends
    /\ model_file = None
    /\ legacy_model = None
    /\ legacy_file = None
    /\ call = Idle
    /\ norm \in {[NormIdle EXCEPT !.fn = fn, !.input = x] : fn \in Normalizers, x \in RawTracts}

\* the normalizer is applied to the raw string
Normalize ==
    /\ norm.applied = 0
    /\ norm' = [norm EXCEPT !.applied = 1, !.first = ApplyNormalizer(norm.fn, norm.input)]
    /\ UNCHANGED <<constructed, model, scaler, tract_trends, model_file,
                   legacy_model, legacy_file, call, data, ens>>

\* the normalizer is applied to its own result
NormalizeAgain ==
    /\ norm.applied = 1
    /\ norm.first.ok
    /\ norm' = [norm EXCEPT !.applied = 2,
                   !.second = ApplyNormalizer(norm.fn, norm.first.value)]
    /\ UNCHANGED <<constructed, model, scaler, tract_trends, model_file,
                   legacy_model, legacy_file, call, data, ens>>

NormNext ==
    \/ Normalize
    \/ NormalizeAgain

SpecNorm == NormInit /\ [][NormNext]_vars

----------------------------------------------------------------------------
(* The predictors under every outcome of reading the data files: the process
   starts with one of the datasets, and with or without a saved model file *)

\* the fitted regression a saved model file holds when the process starts
SAVED_FILE ==
    TrainResult(TRACT_TRENDS["full"], CHOOSE f \in FITS : f.run = 1).model_file

DataInit ==
    /\ data \in Datasets
    /\ ens = NoEnsemble
    /\ constructed = FALSE
    /\ model = None
    /\ scaler = None
    /\ tract_trends = EmptyTrends
    /\ model_file \in {None, SAVED_FILE}
    /\ legacy_model = None
    /\ legacy_file = None
    /\ call = Idle
    /\ norm = NormIdle

PredictFew == PredictWith(DataTractArgs, DataInterventionLists, DataHorizons)

LegacyPredictFew == LegacyPredictWith(DataTractArgs, DataInterventionLists, DataHorizons)

DataNext ==
    \/ Construct
    \/ Train
    \/ Load
    \/ PredictFew
    \/ PredictAgain
    \/ Return
    \/ LegacyTrain
    \/ LegacyPredictFew

SpecData == DataInit /\ [][DataNext]_vars

----------------------------------------------------------------------------
(* The predictor singleton of the request handlers: `constructed` is here
   "_predictor is not None", and nothing but get_predictor constructs *)

SingletonInit == DataInit

\* get_predictor() of submission/Code/api/predict.py with the constrained
\* predictor: _predictor is assigned the new instance, then load() runs; the
\* except clause catches FileNotFoundError only, which load() does not
\* raise (it trains when the file is missing), so the errors of train() leave
\* get_predictor with _predictor assigned
GetPredictor ==
    /\ call.kind = "idle"
    /\ IF ~constructed
       THEN \E f \in FitChoices(model_file = None /\ TrainingPairs # {}) :
            \E r \in {LoadResult(None, None, LoadedTrends, model_file, f)} :
               /\ constructed' = TRUE
               /\ model' = r.model
               /\ scaler' = r.scaler
               /\ tract_trends' = r.tract_trends
               /\ model_file' = r.model_file
               /\ call' = [Idle EXCEPT !.kind = "get_predictor", !.nth = 1,
                              !.status = r.status]
       ELSE /\ call' = [Idle EXCEPT !.kind = "get_predictor", !.nth = 2,
                           !.was_fitted = (model # None), !.status = "ok"]
            /\ UNCHANGED <<constructed, model, scaler, tract_trends, model_file>>
    /\ UNCHANGED <<legacy_model, legacy_file, norm, data, ens>>

SingletonNext ==
    \/ GetPredictor
    \/ PredictFew
    \/ Return

SpecSingleton == SingletonInit /\ [][SingletonNext]_vars

----------------------------------------------------------------------------
(* The intervention effect model on its own: _compute_intervention_boost
   called with a list (None and [] are both the empty sequence here, the
   function returns 0.0 for both at its first test) and a year index *)

BoostInit ==
    /\ data = "full"
    /\ ens = NoEnsemble
    /\ constructed = TRUE
    /\ model = None
    /\ scaler = None
    /\ tract_trends = LoadedTrends
    /\ model_file = None
    /\ legacy_model = None
    /\ legacy_file = None
    /\ \E interventions \in BoostLists, year \in BoostYears :
          call = [Idle EXCEPT !.kind = "boost_args", !.interventions = interventions,
                     !.years_ahead = year]
    /\ norm = NormIdle

\* _compute_intervention_boost(interventions, year)
ComputeBoost ==
    /\ call.kind = "boost_args"
    /\ call' = [call EXCEPT !.kind = "boost",
                   !.boost = ComputeInterventionBoost(call.interventions, call.years_ahead)]
    /\ UNCHANGED <<constructed, model, scaler, tract_trends, model_file,
                   legacy_model, legacy_file, norm, data, ens>>

BoostNext == ComputeBoost

SpecBoost == BoostInit /\ [][BoostNext]_vars

----------------------------------------------------------------------------
(* The ensemble on its own: an EnsembleIGSPredictor is constructed with some
   weights, fitted and asked for forecasts.  Its ml_predictor is the
   ConstrainedIGSPredictor of the variables model, scaler, tract_trends. *)

EnsDatasets == {"full", "noigs"}

EnsInit ==
    /\ data \in EnsDatasets
    /\ ens = NoEnsemble
    /\ constructed = FALSE
    /\ model = None
    /\ scaler = None
    /\ tract_trends = EmptyTrends
    /\ model_file \in {None, SAVED_FILE}
    /\ legacy_model = None
    /\ legacy_file = None
    /\ call = Idle
    /\ norm = NormIdle

\* EnsembleIGSPredictor(weights): __init__, which constructs the ml_predictor
EnsConstruct ==
    /\ ~ens.exists
    /\ call.kind = "idle"
    /\ \E w \in WeightConfigs :
          ens' = [NoEnsemble EXCEPT !.exists = TRUE, !.weights = w,
                     !.benchmark_igs = DEFAULT_BENCHMARK_IGS]
    /\ constructed' = TRUE
    /\ model' = None
    /\ scaler' = None
    /\ tract_trends' = LoadedTrends
    /\ UNCHANGED <<model_file, legacy_model, legacy_file, call, norm, data>>

\* fit() of the ensemble e: the outcome, the ensemble and the fields of the
\* ml_predictor it leaves; f is the fit outcome of ml_predictor.train()
EnsFitOutcome(e, f) ==
    LET kept == [status |-> "ok", model |-> model, scaler |-> scaler,
                 tract_trends |-> tract_trends, model_file |-> model_file]
        t == TrainOutcome(model, scaler, tract_trends, model_file, f)
    IN  IF ~IgsFound THEN [ens |-> e, ml |-> kept]
        ELSE IF t.status # "ok" THEN [ens |-> e, ml |-> t]
        ELSE [ens |-> [e EXCEPT !.is_fitted = TRUE,
                                !.trends = COMPONENT_FITS[data].trends,
                                !.tracts = COMPONENT_FITS[data].tracts,
                                !.benchmark_igs = COMPONENT_FITS[data].benchmark_igs],
              ml |-> t]

\* fit(), called directly
EnsFit ==
    /\ ens.exists
    /\ call.kind = "idle"
    /\ \E f \in FitChoices(TrainingPairs # {}) :
          \E r \in {EnsFitOutcome(ens, f)} :
              /\ ens' = r.ens
              /\ model' = r.ml.model
              /\ scaler' = r.ml.scaler
              /\ model_file' = r.ml.model_file
              /\ call' = [Idle EXCEPT !.kind = "ens_fit", !.nth = 1,
                             !.was_fitted = ens.is_fitted, !.status = r.ml.status]
    /\ UNCHANGED <<constructed, tract_trends, legacy_model, legacy_file, norm, data>>

\* the part predict and predict_with_breakdown share: fit() when not fitted,
\* the three component forecasts and the weighted ensemble
EnsPredictCall(kind, tract, interventions, years_ahead) ==
    \E f \in FitChoices(~ens.is_fitted /\ TrainingPairs # {}) :
       \E fitted \in {IF ens.is_fitted
                       THEN [ens |-> ens,
                             ml |-> [status |-> "ok", model |-> model, scaler |-> scaler,
                                     tract_trends |-> tract_trends,
                                     model_file |-> model_file]]
                       ELSE EnsFitOutcome(ens, f)} :
       \E r \in {IF fitted.ml.status # "ok" THEN fitted.ml
                  ELSE EnsureLoaded(fitted.ml.model, fitted.ml.scaler,
                                    fitted.ml.tract_trends, fitted.ml.model_file, f)} :
       \E ml \in {PredictOutcome(r, tract, interventions, years_ahead)} :
       \E b \in {EnsembleBody(fitted.ens, ml, tract, interventions, years_ahead)} :
           /\ ens' = fitted.ens
           /\ model' = r.model
           /\ scaler' = r.scaler
           /\ tract_trends' = r.tract_trends
           /\ model_file' = r.model_file
           /\ call' = [Idle EXCEPT !.kind = kind, !.nth = 1, !.tract = tract,
                          !.interventions = interventions, !.years_ahead = years_ahead,
                          !.was_fitted = ens.is_fitted, !.status = b.status,
                          !.ml_pred = b.ml_pred, !.trend_pred = b.trend_pred,
                          !.benchmark_pred = b.benchmark_pred,
                          !.predictions = b.predictions,
                          !.years = IF kind = "breakdown" /\ b.status = "ok"
                                    THEN [i \in 1..years_ahead |-> i] ELSE <<>>]

\* EnsembleIGSPredictor.predict(tract, interventions, years_ahead)
EnsPredict ==
    /\ ens.exists
    /\ call.kind = "idle"
    /\ \E tract \in EnsTractArgs, interventions \in EnsInterventionLists,
          years_ahead \in YearsAhead :
          EnsPredictCall("ensemble", tract, interventions, years_ahead)
    /\ UNCHANGED <<constructed, legacy_model, legacy_file, norm, data>>

\* EnsembleIGSPredictor.predict_with_breakdown(tract, interventions, years_ahead)
EnsPredictWithBreakdown ==
    /\ ens.exists
    /\ call.kind = "idle"
    /\ \E tract \in EnsTractArgs, interventions \in EnsInterventionLists,
          years_ahead \in YearsAhead :
          EnsPredictCall("breakdown", tract, interventions, years_ahead)
    /\ UNCHANGED <<constructed, legacy_model, legacy_file, norm, data>>

EnsNext ==
    \/ EnsConstruct
    \/ EnsFit
    \/ EnsPredict
    \/ EnsPredictWithBreakdown
    \/ Return

SpecEns == EnsInit /\ [][EnsNext]_vars

----------------------------------------------------------------------------
(* Properties *)

\* the call just made is a call of ConstrainedIGSPredictor.predict that returned
Returned == call.kind \in {"predict", "request"} /\ call.status = "ok"

InRange(x) == 0 <= x /\ x <= IGS_MAX

\* the forecast of the instance as it is now, for other arguments
Forecast(tract, interventions, years_ahead) ==
    PredictBody(model, scaler, tract_trends, tract, interventions, years_ahead)

\* C1: every value of the sequence predict returns lies in [0, 100], whatever
\* the regression or the trend supplies at each step
C1_BoundedOutput ==
    Returned =>
        /\ \A i \in 1..Len(call.predictions) : InRange(call.predictions[i])
        /\ \A i \in 1..Len(call.baseline) : InRange(call.baseline[i])

\* a forecast in which the bound at 100 cut the running score
C1_Witness ==
    /\ Returned
    /\ \E i \in 1..Len(call.steps) :
          /\ call.steps[i].before + call.steps[i].total_change > IGS_MAX
          /\ call.predictions[i] = IGS_MAX

\* C2: predict returns exactly years_ahead values; the latest known score is
\* not among them: value 1 is the rounded running score after the first step
\* from the latest known score, and step i starts from the unrounded running
\* score step i-1 left
C2_SequenceShape ==
    Returned =>
        /\ Len(call.predictions) = call.years_ahead
        /\ Len(call.steps) = call.years_ahead
        /\ \A i \in 1..Len(call.steps) :
              /\ call.steps[i].year = i - 1
              /\ call.steps[i].before = IF i = 1 THEN call.start ELSE call.steps[i - 1].after
              /\ call.steps[i].after =
                    Clip(call.steps[i].before + call.steps[i].total_change, 0, IGS_MAX)
              /\ call.predictions[i] = Round2(call.steps[i].after)

\* a forecast of several years whose first running score is not a whole
\* hundredth, so that rounded and unrounded score differ
C2_Witness ==
    /\ Returned
    /\ call.years_ahead >= 2
    /\ call.steps[1].after # Round2(call.steps[1].after)
    /\ call.predictions[1] # call.start

\* C3: for a latest known score in [0, 100] the running score changes by at
\* least -2.0 and at most +3.5 in every simulated step, the first included
C3_BoundedYearlyChange ==
    (Returned /\ InRange(call.start)) =>
        \A i \in 1..Len(call.steps) :
            /\ call.steps[i].after - call.steps[i].before >= YEARLY_CHANGE_MIN
            /\ call.steps[i].after - call.steps[i].before <= YEARLY_CHANGE_MAX

\* a forecast with a step whose unclipped change lies below -2.0 and a step
\* dampened above 70 or floored below 25
C3_Witness ==
    /\ Returned
    /\ \E i \in 1..Len(call.steps) :
          call.steps[i].ml_change + call.steps[i].boost < YEARLY_CHANGE_MIN
    /\ \E i \in 1..Len(call.steps) :
          call.steps[i].total_change # call.steps[i].clipped

ValidNames == DOMAIN INTERVENTION_MULTIPLIERS

Range(q) == {q[i] : i \in 1..Len(q)}

\* C4: adding a valid intervention that is not in the list never lowers any
\* year's value of the forecast of the same tract and horizon
C4_MonotoneIntervention ==
    (call.kind = "predict" /\ call.status = "ok") =>
        \A v \in ValidNames \ Range(call.interventions) :
            LET more == Forecast(call.tract, Append(call.interventions, v), call.years_ahead)
            IN  \A i \in 1..Len(call.predictions) :
                    more.predictions[i] >= call.predictions[i]

\* C5: a list holding one name outside the intervention table gives the
\* forecast of the empty list, and no error
C5_UnknownInterventionNoOp ==
    (call.kind = "predict" /\ Len(call.interventions) = 1
        /\ call.interventions[1] \notin ValidNames) =>
        LET none == Forecast(call.tract, <<>>, call.years_ahead)
        IN  /\ call.status = none.status
            /\ call.predictions = none.predictions

\* a forecast of at least one year with one unknown name
C5_Witness ==
    /\ call.kind = "predict"
    /\ call.status = "ok"
    /\ call.interventions = <<"not_a_real_intervention">>
    /\ call.years_ahead >= 1
    /\ Len(call.predictions) = call.years_ahead

\* C6: a list that names a valid intervention twice gives the forecast, and
\* each year's boost, of the list that names it once, in a direct call and
\* after validate_interventions
C6_DuplicatesHarmless ==
    (Returned /\ Len(call.interventions) = 2
        /\ call.interventions[1] = call.interventions[2]
        /\ call.interventions[1] \in ValidNames) =>
        LET once == Forecast(call.tract, <<call.interventions[1]>>, call.years_ahead)
        IN  /\ call.predictions = once.predictions
            /\ \A i \in 1..Len(call.steps) : call.steps[i].boost = once.steps[i].boost

\* C7: predict on a fitted predictor leaves model, scaler and tract_trends as
\* they are, and the same call made again returns the same sequence
C7_DeterminismNoRefit ==
    [][ (model # None /\ call'.kind = "predict" /\ call' # call) =>
            /\ model' = model
            /\ scaler' = scaler
            /\ tract_trends' = tract_trends
            /\ (call.kind = "predict" =>
                   /\ call'.status = call.status
                   /\ call'.predictions = call.predictions) ]_vars

\* the second of two equal calls on a fitted predictor has returned a forecast
C7_Witness ==
    /\ call.kind = "predict"
    /\ call.nth = 2
    /\ call.was_fitted
    /\ call.status = "ok"
    /\ call.years_ahead >= 2

HasDigit(x) == OnlyDigits(x) # <<>>

\* C8: normalizing the result of a normalization changes nothing, for
\* validate_tract and for normalize_fips, on every accepted string with a digit
C8_IdempotentNormalization ==
    (norm.applied = 2 /\ HasDigit(norm.input)) =>
        /\ norm.second.ok
        /\ norm.second.value = norm.first.value

\* a string with a digit and other characters has been normalized twice
C8_Witness ==
    /\ norm.applied = 2
    /\ HasDigit(norm.input)
    /\ norm.first.value # norm.input
    /\ OnlyDigits(norm.input) # norm.input

\* C9: a non-empty tract string without any digit is rejected with a
\* ValueError and is not passed on to the predictor
C9_NoDigitTractRejected ==
    (call.kind = "request" /\ call.raw_tract # <<>> /\ ~HasDigit(call.raw_tract)) =>
        /\ call.status \notin {"ok", "KeyError"}
        /\ call.predictions = <<>>

WellFormed(tract) == Len(tract) = TRACT_WIDTH /\ \A i \in 1..Len(tract) : tract[i] \in Digits

NoFeatureRow(tract) == AcsMatches(tract) = <<>>
NoHistory(tract) == TractData(tract) = <<>>

----------------------------------------------------------------------------
(* Properties of the ensemble *)

\* the call just made is a forecast of the ensemble that returned
EnsReturned == call.kind \in {"ensemble", "breakdown"} /\ call.status = "ok"

\* the forecast of the ensemble as it is now, for other arguments
EnsForecast(tract, interventions, years_ahead) ==
    EnsembleBody(ens, Forecast(tract, interventions, years_ahead),
                 tract, interventions, years_ahead)

\* C11: the ensemble returns years_ahead values, and value i is the weighted
\* sum, rounded to two decimals, of the values i the constrained predictor,
\* the trend extrapolator and the benchmark converger return for the same
\* arguments
C11_EnsembleLinearity ==
    EnsReturned =>
        LET A == Forecast(call.tract, call.interventions, call.years_ahead).predictions
            B == TrendPredict(ens.trends, call.tract, call.years_ahead)
            C == BenchmarkPredict(ens.tracts, ens.benchmark_igs, call.tract,
                                  call.interventions, call.years_ahead)
        IN  /\ Len(call.predictions) = call.years_ahead
            /\ Len(A) = call.years_ahead
            /\ Len(B) = call.years_ahead
            /\ Len(C) = call.years_ahead
            /\ \A i \in 1..call.years_ahead :
                  call.predictions[i] = Round2(Weighted(ens.weights, A[i], B[i], C[i]))

\* a fitted ensemble has returned several years in which the three component
\* values differ and the weighted sum is not a whole hundredth
C11_Witness ==
    /\ EnsReturned
    /\ ens.is_fitted
    /\ call.years_ahead >= 2
    /\ call.ml_pred[2] # call.trend_pred[2]
    /\ call.trend_pred[2] # call.benchmark_pred[2]
    /\ call.ml_pred[2] # call.benchmark_pred[2]
    /\ Weighted(ens.weights, call.ml_pred[2], call.trend_pred[2], call.benchmark_pred[2])
          # call.predictions[2]

\* C12: every value the ensemble returns, from predict and as the 'ensemble'
\* entry of predict_with_breakdown, lies in [0, 100], for every weight
\* dictionary the constructor takes
C12_EnsembleBounded ==
    EnsReturned => \A i \in 1..Len(call.predictions) : InRange(call.predictions[i])

\* C13: the ensemble's forecast for a list holding one name outside the
\* intervention table is its forecast for the empty list
C13_EnsembleUnknownNoOp ==
    (EnsReturned /\ Len(call.interventions) = 1
        /\ call.interventions[1] \notin ValidNames) =>
        LET none == EnsForecast(call.tract, <<>>, call.years_ahead)
        IN  /\ none.status = "ok"
            /\ call.predictions = none.predictions

----------------------------------------------------------------------------
(* Properties of the predictors when the model or the data is missing *)

\* the tract of the call has an entry with a latest score in tract_trends
TrendKnown ==
    LET tract == Zfill(call.tract, TRACT_WIDTH)
    IN  tract \in DOMAIN tract_trends /\ "latest_igs" \in DOMAIN tract_trends[tract]

\* C14: a call of predict for a tract whose trend is known, made when no
\* model is set and no model file exists, or for a tract without a feature
\* row, returns years_ahead values; where the regression or the features are
\* missing, the change of every year is the tract's trend
C14_DegradedModeNeverFails ==
    LET tract == Zfill(call.tract, TRACT_WIDTH)
    IN  (/\ call.kind = "predict"
         /\ TrendKnown
         /\ \/ ~call.was_fitted /\ ~call.had_file
            \/ GetFeatures(tract) = None) =>
            /\ call.status = "ok"
            /\ Len(call.predictions) = call.years_ahead
            /\ (model = None \/ GetFeatures(tract) = None) =>
                  \A i \in 1..Len(call.steps) :
                     call.steps[i].ml_change = tract_trends[tract].trend

\* C15: a call of predict made with no model set and no model file, while
\* both data files are loaded, trains: it leaves a fitted model and does not
\* end with the error of the missing fit or file; for the constrained and
\* the legacy predictor
C15_NotFittedAutoRecovery ==
    (/\ call.kind \in {"predict", "legacy"}
     /\ ~call.was_fitted
     /\ ~call.had_file
     /\ AcsFound) =>
        /\ call.status \notin {"FileNotFoundError", "NotFittedError"}
        /\ call.kind = "predict" => model # None /\ model_file # None
        /\ call.kind = "legacy" => legacy_model # None

\* C16: after a train() that returned, a fresh predictor that calls load()
\* holds the model, the scaler and the tract_trends of the saving one, and
\* its predict returns what the saving one's returns, for all arguments
C16_SaveLoadRoundTrip ==
    (call.kind = "train" /\ call.status = "ok") =>
        \E fresh \in {LoadResult(None, None, LoadedTrends, model_file,
                                 CHOOSE f \in FITS : f.run = 1)} :
            /\ fresh.status = "ok"
            /\ fresh.model = model
            /\ fresh.scaler = scaler
            /\ fresh.tract_trends = tract_trends
            /\ \A t \in TractArgs, I \in InterventionLists, n \in YearsAhead :
                  PredictBody(fresh.model, fresh.scaler, fresh.tract_trends, t, I, n)
                     = Forecast(t, I, n)

\* a fitted predictor has trained again and has overwritten the model file
\* with another fit
C16_Witness ==
    /\ call.kind = "train"
    /\ call.status = "ok"
    /\ call.was_fitted
    /\ call.before[3] # None
    /\ model_file # call.before[3]
    /\ tract_trends # EmptyTrends

\* C17: train() and the legacy train_model(), called when the data holds no
\* (tract, transition) pair, raise, leave the model and the scaler as they
\* were, and write no file
C17_ZeroPairsFitFailsCleanly ==
    (/\ call.kind \in {"train", "legacy_train"}
     /\ IgsFound
     /\ TrainingPairs = {}) =>
        /\ call.status # "ok"
        /\ call.kind = "train" =>
              /\ call.status = "ValueError: No training data available"
              /\ <<model, scaler, model_file>> = call.before
        /\ call.kind = "legacy_train" =>
              <<legacy_model, legacy_file>> = call.before

\* C18: no input row given to a regression by predict, of the constrained or
\* of the legacy predictor, holds a NaN
C18_NoNaNReachesRegression ==
    call.kind \in {"predict", "confidence", "legacy"} => ~call.nan_in_row

\* the call just made is a call of predict_with_confidence that returned
ConfReturned == call.kind = "confidence" /\ call.status = "ok"

\* C19: predict_with_confidence returns the list of predict for the same
\* arguments, and lists of the same length years_ahead with
\* 0 <= lower_bound[i] <= predictions[i] <= upper_bound[i] <= 100 and
\* years = 1..years_ahead
C19_ConfidenceBounds ==
    ConfReturned =>
        /\ call.predictions
              = Forecast(call.tract, call.interventions, call.years_ahead).predictions
        /\ Len(call.predictions) = call.years_ahead
        /\ Len(call.lower_bound) = call.years_ahead
        /\ Len(call.upper_bound) = call.years_ahead
        /\ call.years = [i \in 1..call.years_ahead |-> i]
        /\ \A i \in 1..call.years_ahead :
              /\ 0 <= call.lower_bound[i]
              /\ call.lower_bound[i] <= call.predictions[i]
              /\ call.predictions[i] <= call.upper_bound[i]
              /\ call.upper_bound[i] <= IGS_MAX

\* predict_with_confidence has returned several years for a tract whose
\* score is below its uncertainty: the lower bound is cut at 0
C19_Witness ==
    /\ ConfReturned
    /\ call.years_ahead >= 2
    /\ call.lower_bound[2] = 0
    /\ call.predictions[2] > 0
    /\ call.upper_bound[2] > call.predictions[2]

\* C20: the boost of every year of a call whose list is valid names followed
\* by one unknown name is the boost of the list without the unknown name
C20_UnknownNamesIgnored ==
    LET L == call.interventions
        known == SubSeq(L, 1, Len(L) - 1)
    IN  (/\ call.kind = "predict"
         /\ call.status = "ok"
         /\ Len(L) >= 1
         /\ L[Len(L)] \notin DOMAIN INTERVENTION_MULTIPLIERS
         /\ \A j \in 1..Len(known) : known[j] \in DOMAIN INTERVENTION_MULTIPLIERS) =>
            \A i \in 1..Len(call.steps) :
               call.steps[i].boost = ComputeInterventionBoost(known, call.steps[i].year)

----------------------------------------------------------------------------
(* Properties of the intervention effect model *)

\* the contribution the specification gives one intervention in year y:
\* min(base_boost * min(1, (y+1)/ramp_years) / (1 + 0.1 * max(0, y-3)), max_boost)
Contribution(name, y) ==
    LET c == INTERVENTION_MULTIPLIERS[name]
        ramp == IF 2 * (y + 1) >= c.ramp2 THEN Ratio(1, 1) ELSE Ratio(2 * (y + 1), c.ramp2)
        diminishing == Ratio(10, 10 + Max(0, y - 3))
    IN  Min(DivRound(c.base_boost * ramp.num * diminishing.num,
                     ramp.den * diminishing.den),
            c.max_boost)

\* the sum of the contributions of a set of interventions
RECURSIVE ContributionSum(_, _)
ContributionSum(S, y) ==
    IF S = {} THEN 0
    ELSE LET n == CHOOSE x \in S : TRUE
         IN  Contribution(n, y) + ContributionSum(S \ {n}, y)

\* C21: for a list of distinct valid interventions and a year y, the boost is
\* the sum of the contributions of the set, plus 0.08 * (count - 1) for more
\* than one; it is 0 for the empty list and never negative
C21_BoostFormula ==
    call.kind = "boost" =>
        LET S == Range(call.interventions)
            count == Cardinality(S)
        IN  /\ call.boost = ContributionSum(S, call.years_ahead)
                               + (IF count > 1 THEN P(8) * (count - 1) ELSE 0)
            /\ call.interventions = <<>> => call.boost = 0
            /\ call.boost >= 0

\* the boost of three programs, one of them with a ramp of 1.5 years,
\* has been computed for a year with diminishing returns
C21_Witness ==
    /\ call.kind = "boost"
    /\ Len(call.interventions) = 3
    /\ "workforce" \in Range(call.interventions)
    /\ call.years_ahead >= 4
    /\ call.boost > P(8) * 2

----------------------------------------------------------------------------
(* Properties of the boundary dampening *)

\* ceil((25 - start) / 0.3) for a start below 25
StepsToLowLevel(start) ==
    CHOOSE k \in 1..100 :
        /\ start + k * LOW_FLOOR >= LOW_LEVEL
        /\ start + (k - 1) * LOW_FLOOR < LOW_LEVEL

\* C22: a step of predict that starts below 25 ends at least 0.3 above where
\* it started; the values returned while the running score is below 25
\* increase strictly, and a forecast from a start in [0, 25) is at 25 or
\* above after ceil((25 - start) / 0.3) steps when it has that many
C22_MinimumImprovement ==
    Returned =>
        /\ \A i \in 1..Len(call.steps) :
              call.steps[i].before < LOW_LEVEL =>
                 /\ call.steps[i].after >= call.steps[i].before + LOW_FLOOR
                 /\ call.predictions[i]
                       > (IF i = 1 THEN call.start ELSE call.predictions[i - 1])
        /\ (0 <= call.start /\ call.start < LOW_LEVEL
               /\ call.years_ahead >= StepsToLowLevel(call.start)) =>
              call.steps[StepsToLowLevel(call.start)].after >= LOW_LEVEL

\* a forecast from below 25 whose own change was below 0.3 in a step has
\* made the number of steps the bound names, more than one
C22_Witness ==
    /\ Returned
    /\ 0 <= call.start
    /\ call.start < LOW_LEVEL
    /\ StepsToLowLevel(call.start) >= 2
    /\ call.years_ahead >= StepsToLowLevel(call.start)
    /\ call.steps[1].clipped < LOW_FLOOR
    /\ call.steps[1].total_change = LOW_FLOOR
    /\ call.steps[StepsToLowLevel(call.start) - 1].after < LOW_LEVEL

\* C23: in a step of predict that starts strictly above 70, the change added
\* to the running score is 0.7 times the change clipped to [-2.0, 3.5], and
\* so lies in [-1.4, 2.45]; in a step that starts at 70 or in [25, 70] it is
\* the clipped change
C23_HighBaselineDampening ==
    Returned =>
        \A i \in 1..Len(call.steps) :
            LET st == call.steps[i]
            IN  /\ st.clipped = Clip(st.ml_change + st.boost,
                                     YEARLY_CHANGE_MIN, YEARLY_CHANGE_MAX)
                /\ st.before > HIGH_LEVEL =>
                      /\ 10 * st.total_change - 7 * st.clipped \in -5..5
                      /\ st.total_change >= -P(140)
                      /\ st.total_change <= P(245)
                /\ (LOW_LEVEL <= st.before /\ st.before <= HIGH_LEVEL) =>
                      st.total_change = st.clipped
                /\ st.after = Clip(st.before + st.total_change, 0, IGS_MAX)

\* a forecast has made a step from exactly 70 with a change that is not 0,
\* and a step from above 70 whose change was cut to 3.5 before the factor
C23_Witness ==
    /\ Returned
    /\ \E i \in 1..Len(call.steps) :
          call.steps[i].before = HIGH_LEVEL /\ call.steps[i].clipped > 0
    /\ \E i \in 1..Len(call.steps) :
          /\ call.steps[i].before > HIGH_LEVEL
          /\ call.steps[i].ml_change + call.steps[i].boost > YEARLY_CHANGE_MAX
          /\ call.steps[i].total_change = P(245)

----------------------------------------------------------------------------
(* Properties of the trend summaries *)

\* C24: for a tract in neither data file, predict starts from the fallback
\* summary (latest score 23, trend 0.5) and takes the trend as the change of
\* every year; without interventions and for three years it returns
\* [23.5, 24.0, 24.5]
C24_FallbackScenario ==
    (call.kind = "predict"
        /\ NoHistory(Zfill(call.tract, TRACT_WIDTH))
        /\ NoFeatureRow(Zfill(call.tract, TRACT_WIDTH))) =>
        /\ call.status = "ok"
        /\ call.start = 23 * Unit
        /\ \A i \in 1..Len(call.steps) : call.steps[i].ml_change = P(50)
        /\ (call.interventions = <<>> /\ call.years_ahead = 3) =>
              call.predictions = <<P(2350), P(2400), P(2450)>>

\* a fitted predictor has forecast three years, without interventions, for
\* a tract in neither data file
C24_Witness ==
    /\ call.kind = "predict"
    /\ call.status = "ok"
    /\ call.tract = T_NONE
    /\ NoHistory(call.tract)
    /\ NoFeatureRow(call.tract)
    /\ model # None
    /\ call.interventions = <<>>
    /\ call.years_ahead = 3
    /\ Len(call.predictions) = 3

\* C25: the summary of a tract with exactly one historical point has trend 0,
\* volatility 1.0 and that point's score as latest value, and predict for
\* such a tract starts from that score and returns years_ahead values
C25_SinglePointHistory ==
    LET tract == Zfill(call.tract, TRACT_WIDTH)
    IN  (call.kind = "predict" /\ Len(TractData(tract)) = 1) =>
            /\ tract \in DOMAIN tract_trends
            /\ tract_trends[tract].trend = 0
            /\ tract_trends[tract].volatility = Unit
            /\ "latest_igs" \in DOMAIN tract_trends[tract]
            /\ call.status = "ok"
            /\ call.start = TractData(tract)[1].score
            /\ Len(call.predictions) = call.years_ahead

----------------------------------------------------------------------------
(* Properties of the training *)

\* C26: in every state, model and scaler are both unset, or both are the
\* outcome of one fit (made by train(), or read by load() from a file that
\* holds the outcome of one fit)
C26_ScalerAndModelTogether ==
    \/ model = None /\ scaler = None
    \/ \E f \in FITS : model = Some(f.model) /\ scaler = Some(f.scaler)

\* a predictor that held a loaded model has been through a train() that
\* raised after its fit: it holds another model, and the file is as it was
C26_Witness ==
    /\ call.kind = "train"
    /\ call.status = "ValueError: n_splits"
    /\ call.before[1] # None
    /\ model # call.before[1]
    /\ scaler # call.before[2]
    /\ model_file = call.before[3]

----------------------------------------------------------------------------
(* Properties of the strategies of the ensemble *)

\* steps 4 to 6 of the constrained recursion on one change: the running
\* score after the step
PolicyStep(current, change) ==
    UpdateRunning(current, Dampen(current, ClipChange(change)))

\* the forecast of strategy B were each step to follow steps 4 to 6
RECURSIVE PolicyTrendLoop(_, _, _, _)
PolicyTrendLoop(decayed, current, year, years_ahead) ==
    IF year >= years_ahead THEN <<>>
    ELSE LET next == PolicyStep(current, decayed)
         IN  <<Round2(next)>>
             \o PolicyTrendLoop(DivRound(decayed * 9, 10), next, year + 1, years_ahead)

\* the forecast of strategy C were each step to follow steps 4 to 6
RECURSIVE PolicyBenchmarkLoop(_, _, _, _, _)
PolicyBenchmarkLoop(benchmark_igs, factor, current, year, years_ahead) ==
    IF year >= years_ahead THEN <<>>
    ELSE LET gap == benchmark_igs - current
             closed == DivRound(DivRound(gap * CONVERGENCE_RATE.num, CONVERGENCE_RATE.den)
                                   * factor, 100)
             change == IF 100 * current > 85 * benchmark_igs
                       THEN DivRound(closed, 2) ELSE closed
             next == PolicyStep(current, change)
         IN  <<Round2(next)>>
             \o PolicyBenchmarkLoop(benchmark_igs, factor, next, year + 1, years_ahead)

\* C27: the forecasts of TrendExtrapolator.predict and of
\* BenchmarkConverger.predict are those of their recursions with each
\* step's change clipped to [-2.0, 3.5], then dampened at the boundaries
\* (times 0.7 above 70, at least 0.3 below 25), then added and clipped to
\* [0, 100]
C27_StrategiesFollowPolicy ==
    EnsReturned =>
        LET tract == Zfill(call.tract, TRACT_WIDTH)
            b == IF tract \in DOMAIN ens.trends THEN ens.trends[tract] ELSE TREND_FALLBACK
            c == IF tract \in DOMAIN ens.tracts THEN ens.tracts[tract] ELSE BENCHMARK_FALLBACK
        IN  /\ call.trend_pred
                  = PolicyTrendLoop(b.smoothed_trend, b.latest, 0, call.years_ahead)
            /\ call.benchmark_pred
                  = PolicyBenchmarkLoop(ens.benchmark_igs, RateFactor(call.interventions),
                                        c.latest, 0, call.years_ahead)

----------------------------------------------------------------------------
(* Properties of the training pairs *)

\* the examples train() has built for one tract, in their order
ExamplesFor(tract) == SelectSeq(call.examples, LAMBDA e : e.tract = tract)

\* the examples of tract t are one per consecutive pair of its years, in
\* the order of the years, with target score[i+1] - score[i] and an input
\* of the features followed by score[i], the tract's trend and the index i
\* counted from 0
OnePerTransition(t) ==
    LET ex == ExamplesFor(t)
        scores == IgsScores(t)
    IN  /\ Len(ex) = Len(scores) - 1
        /\ \A i \in 1..Len(ex) :
              /\ ex[i].target = scores[i + 1] - scores[i]
              /\ Len(ex[i].input) = NCols
              /\ SubSeq(ex[i].input, 1, NCols - 3) = Get(GetFeatures(t))
              /\ SubSeq(ex[i].input, NCols - 2, NCols)
                    = <<scores[i], tract_trends[t].trend, (i - 1) * Unit>>

\* train() got to the end of its loop over the tracts
PairsBuilt ==
    /\ call.kind = "train"
    /\ call.status # "ValueError: No IGS data loaded"
    /\ call.status # "KeyError"

\* C28 as claimed: train() emits, for every tract with at least two
\* historical points, one example per consecutive pair of years, and none
\* for a tract with fewer points
C28_PairsOfEveryTract ==
    PairsBuilt =>
        \A t \in IgsTracts :
            IF Len(IgsScores(t)) >= 2 THEN OnePerTransition(t)
            ELSE ExamplesFor(t) = <<>>

\* C28 amended: train() emits, for every tract with a feature row and at
\* least two historical points, one example per consecutive pair of years,
\* and none for a tract with fewer points or without a feature row
C28_PairsOfTractsWithFeatures ==
    PairsBuilt =>
        /\ \A t \in IgsTracts :
               IF Len(IgsScores(t)) >= 2 /\ GetFeatures(t) # None
               THEN OnePerTransition(t)
               ELSE ExamplesFor(t) = <<>>
        /\ \A i \in 1..Len(call.examples) : call.examples[i].tract \in IgsTracts
        /\ Len(call.examples) = Cardinality(TrainingPairs)

\* train() has built several examples for one tract and none for a tract
\* with two points and no feature row, nor for one with features and a
\* single point
C28_Witness ==
    /\ PairsBuilt
    /\ call.status = "ok"
    /\ \E t \in IgsTracts : Len(ExamplesFor(t)) >= 3
    /\ \E t \in IgsTracts :
          Len(IgsScores(t)) >= 2 /\ GetFeatures(t) = None /\ ExamplesFor(t) = <<>>
    /\ \E t \in IgsTracts :
          Len(IgsScores(t)) = 1 /\ GetFeatures(t) # None /\ ExamplesFor(t) = <<>>

----------------------------------------------------------------------------
(* Properties that follow from the bounds together *)

\* C29: in a forecast of predict that starts from a score s in [0, 100],
\* every running score and every returned value is at least min(s, 23), and
\* the sum the lower clip at 0 is applied to is never below 0
C29_ImplicitLowerBound ==
    (Returned /\ InRange(call.start)) =>
        \A i \in 1..Len(call.steps) :
            /\ call.steps[i].before >= Min(call.start, 23 * Unit)
            /\ call.steps[i].after >= Min(call.start, 23 * Unit)
            /\ call.predictions[i] >= Min(call.start, 23 * Unit)
            /\ call.steps[i].before + call.steps[i].total_change >= 0
            /\ call.steps[i].before + call.steps[i].total_change <= IGS_MAX =>
                  call.steps[i].after
                     = call.steps[i].before + call.steps[i].total_change

\* a forecast has fallen by the largest yearly decline from 25 or above to
\* below 25, and has risen by the floor in another step
C29_Witness ==
    /\ Returned
    /\ InRange(call.start)
    /\ \E i \in 1..Len(call.steps) :
          /\ call.steps[i].before >= LOW_LEVEL
          /\ call.steps[i].total_change = YEARLY_CHANGE_MIN
          /\ call.steps[i].after < LOW_LEVEL
    /\ \E i \in 1..Len(call.steps) :
          /\ call.steps[i].before < LOW_LEVEL
          /\ call.steps[i].clipped < LOW_FLOOR

----------------------------------------------------------------------------
(* Properties of the predictor singleton *)

\* C30: a call of get_predictor that returns, returns a predictor whose
\* model is set, and a call that raises leaves no instance in _predictor
\* (an instance is constructed only while _predictor is None)
C30_SingletonLifecycle ==
    call.kind = "get_predictor" =>
        /\ call.status = "ok" => constructed /\ model # None
        /\ call.status # "ok" => ~constructed
        /\ call.nth = 1 \/ constructed

====
